---- MODULE Spec2Model ----
(***************************************************************************)
(* Model of the extraction pipeline of naive_text: the era catalogue and   *)
(* its disambiguation (regime.rs), the event/time scanner, the timeline     *)
(* builder and the numeral parser (event.rs), and the confidence filter of  *)
(* run_extract (main.rs).                                                   *)
(*                                                                          *)
(* Chinese text cannot appear in TLA+ strings, so era names, regime display *)
(* names and characters are written in toneless pinyin (a tone digit is     *)
(* added where two names would collide); the original is in the comment.    *)
(***************************************************************************)
EXTENDS Integers, Sequences, FiniteSets, TLC

VARIABLES
  call,             \* pure-function harness: the invocation (function name and arguments)
  ret,              \* pure-function harness: the returned Option value
  pc,               \* position of the operation under way
  content_len,      \* scan_file: content.len()
  times,            \* scan_file: Vec<(usize, TimeRef)> returned by extract_times
  scopes,           \* scan_file: Vec<TimeScope> returned by build_time_scopes
  events,           \* scan_file: Vec<Event> pushed so far
  all_events,       \* run_extract: events returned by scan_corpus
  person_freq,      \* run_extract: HashMap<String, usize>
  location_freq,    \* run_extract: HashMap<String, usize>
  high_confidence,  \* run_extract: Vec<Event> written as `events`
  unstructured,     \* run_extract: Vec<Event> written as `unstructured_events`
  time_index,       \* TimeIndex.scopes handed to Timeline::from_scopes
  map,              \* from_scopes: HashMap<(String, String, u8), Vec<String>>
  regime_map,       \* from_scopes: HashMap<String, HashMap<String, Vec<TimePoint>>>
  timeline,         \* the Timeline returned by from_scopes
  prev_timeline     \* the Timeline an earlier run returned for the same scopes

pureVars     == <<call, ret>>
scanVars     == <<content_len, times, scopes, events>>
extractVars  == <<all_events, person_freq, location_freq, high_confidence, unstructured>>
timelineVars == <<time_index, map, regime_map, timeline, prev_timeline>>
vars         == <<pureVars, pc, scanVars, extractVars, timelineVars>>

\* Option<T>: None is the empty tuple, Some(x) the one-element tuple.
None == <<>>
Some(x) == <<x>>
IsSome(o) == Len(o) = 1
Unwrap(o) == o[1]

NoCall == [fn |-> "none"]

PureIdle     == call = NoCall /\ ret = None
ScanIdle     == content_len = 0 /\ times = <<>> /\ scopes = <<>> /\ events = <<>>
ExtractIdle  == /\ all_events = <<>> /\ person_freq = <<>> /\ location_freq = <<>>
                /\ high_confidence = <<>> /\ unstructured = <<>>
TimelineIdle == /\ time_index = <<>> /\ map = <<>> /\ regime_map = <<>>
                /\ timeline = None /\ prev_timeline = None

(***************************************************************************)
(* regime.rs: regimes, books and the era catalogue                          *)
(***************************************************************************)

\* enum Regime, in declaration order
Regime ==
  << "WesternJin", "EasternJin", "LiuSong", "SouthernQi", "Liang", "Chen",
     "NorthernWei", "HanZhao", "LaterZhao", "ChengHan", "FormerLiang",
     "FormerYan", "FormerQin", "LaterQin", "LaterYan", "WesternQin",
     "LaterLiang", "SouthernLiang", "SouthernYan", "WesternLiang",
     "NorthernLiang", "XiaState", "NorthernYan" >>

Regimes == {Regime[i] : i \in 1..Len(Regime)}

\* Regime::as_chinese (西晉 東晉 劉宋 南齊 梁 陳 北魏 漢趙 後趙 成漢 前涼 前燕 前秦
\* 後秦 後燕 西秦 後涼 南涼 南燕 西涼 北涼 夏 北燕)
as_chinese(r) ==
  CASE r = "WesternJin"    -> "XiJin"
    [] r = "EasternJin"    -> "DongJin"
    [] r = "LiuSong"       -> "LiuSong"
    [] r = "SouthernQi"    -> "NanQi"
    [] r = "Liang"         -> "Liang"
    [] r = "Chen"          -> "Chen"
    [] r = "NorthernWei"   -> "BeiWei"
    [] r = "HanZhao"       -> "HanZhao"
    [] r = "LaterZhao"     -> "HouZhao"
    [] r = "ChengHan"      -> "ChengHan"
    [] r = "FormerLiang"   -> "QianLiang"
    [] r = "FormerYan"     -> "QianYan"
    [] r = "FormerQin"     -> "QianQin"
    [] r = "LaterQin"      -> "HouQin"
    [] r = "LaterYan"      -> "HouYan"
    [] r = "WesternQin"    -> "XiQin"
    [] r = "LaterLiang"    -> "HouLiang"
    [] r = "SouthernLiang" -> "NanLiang"
    [] r = "SouthernYan"   -> "NanYan"
    [] r = "WesternLiang"  -> "XiLiang"
    [] r = "NorthernLiang" -> "BeiLiang"
    [] r = "XiaState"      -> "Xia"
    [] r = "NorthernYan"   -> "BeiYan"

\* Regime::start_ad_year
start_ad_year(r) ==
  CASE r = "WesternJin"    -> 265
    [] r = "EasternJin"    -> 317
    [] r = "LiuSong"       -> 420
    [] r = "SouthernQi"    -> 479
    [] r = "Liang"         -> 502
    [] r = "Chen"          -> 557
    [] r = "NorthernWei"   -> 386
    [] r = "HanZhao"       -> 304
    [] r = "LaterZhao"     -> 319
    [] r = "ChengHan"      -> 304
    [] r = "FormerLiang"   -> 314
    [] r = "FormerYan"     -> 337
    [] r = "FormerQin"     -> 351
    [] r = "LaterQin"      -> 384
    [] r = "LaterYan"      -> 384
    [] r = "WesternQin"    -> 385
    [] r = "LaterLiang"    -> 386
    [] r = "SouthernLiang" -> 397
    [] r = "SouthernYan"   -> 398
    [] r = "WesternLiang"  -> 400
    [] r = "NorthernLiang" -> 397
    [] r = "XiaState"      -> 407
    [] r = "NorthernYan"   -> 407

\* enum Book
Books == {"JinShu", "SongShu", "NanQiShu", "LiangShu", "ChenShu", "WeiShu"}

\* struct EraEntry
EraEntry(name, regime, start_ad, end_ad) ==
  [name |-> name, regime |-> regime, start_ad |-> start_ad, end_ad |-> end_ad]

\* static ERA_NAMES, in source order
ERA_NAMES ==
  << EraEntry("TaiShi", "WesternJin", 265, 274),  \* 1: 泰始 (regime.rs:190)
     EraEntry("XianNing", "WesternJin", 275, 280),  \* 2: 咸寧 (regime.rs:196)
     EraEntry("TaiKang", "WesternJin", 280, 289),  \* 3: 太康 (regime.rs:202)
     EraEntry("TaiXi", "WesternJin", 290, 290),  \* 4: 太熙 (regime.rs:208)
     EraEntry("YongXi", "WesternJin", 290, 290),  \* 5: 永熙 (regime.rs:214)
     EraEntry("YongPing", "WesternJin", 291, 291),  \* 6: 永平 (regime.rs:220)
     EraEntry("YuanKang", "WesternJin", 291, 299),  \* 7: 元康 (regime.rs:226)
     EraEntry("YongKang", "WesternJin", 300, 301),  \* 8: 永康 (regime.rs:232)
     EraEntry("YongNing", "WesternJin", 301, 302),  \* 9: 永寧 (regime.rs:238)
     EraEntry("TaiAn", "WesternJin", 302, 304),  \* 10: 太安 (regime.rs:244)
     EraEntry("YongAn", "WesternJin", 304, 304),  \* 11: 永安 (regime.rs:250)
     EraEntry("JianWu", "WesternJin", 304, 304),  \* 12: 建武 (regime.rs:256)
     EraEntry("YongXing", "WesternJin", 304, 306),  \* 13: 永興 (regime.rs:262)
     EraEntry("GuangXi", "WesternJin", 306, 306),  \* 14: 光熙 (regime.rs:268)
     EraEntry("YongJia", "WesternJin", 307, 313),  \* 15: 永嘉 (regime.rs:274)
     EraEntry("JianXing", "WesternJin", 313, 317),  \* 16: 建興 (regime.rs:280)
     EraEntry("JianWu", "EasternJin", 317, 318),  \* 17: 建武 (regime.rs:287)
     EraEntry("DaXing", "EasternJin", 318, 321),  \* 18: 大興 (regime.rs:293)
     EraEntry("YongChang", "EasternJin", 322, 323),  \* 19: 永昌 (regime.rs:299)
     EraEntry("TaiNing", "EasternJin", 323, 326),  \* 20: 太寧 (regime.rs:305)
     EraEntry("XianHe", "EasternJin", 326, 334),  \* 21: 咸和 (regime.rs:311)
     EraEntry("XianKang", "EasternJin", 335, 342),  \* 22: 咸康 (regime.rs:317)
     EraEntry("JianYuan", "EasternJin", 343, 344),  \* 23: 建元 (regime.rs:323)
     EraEntry("YongHe", "EasternJin", 345, 356),  \* 24: 永和 (regime.rs:329)
     EraEntry("ShengPing", "EasternJin", 357, 361),  \* 25: 升平 (regime.rs:335)
     EraEntry("LongHe", "EasternJin", 362, 363),  \* 26: 隆和 (regime.rs:341)
     EraEntry("XingNing", "EasternJin", 363, 365),  \* 27: 興寧 (regime.rs:347)
     EraEntry("TaiHe", "EasternJin", 366, 371),  \* 28: 太和 (regime.rs:353)
     EraEntry("XianAn", "EasternJin", 371, 372),  \* 29: 咸安 (regime.rs:359)
     EraEntry("NingKang", "EasternJin", 373, 375),  \* 30: 寧康 (regime.rs:365)
     EraEntry("TaiYuan", "EasternJin", 376, 396),  \* 31: 太元 (regime.rs:371)
     EraEntry("LongAn", "EasternJin", 397, 401),  \* 32: 隆安 (regime.rs:377)
     EraEntry("YuanXing", "EasternJin", 402, 404),  \* 33: 元興 (regime.rs:383)
     EraEntry("YiXi", "EasternJin", 405, 418),  \* 34: 義熙 (regime.rs:389)
     EraEntry("YongChu", "LiuSong", 420, 422),  \* 35: 永初 (regime.rs:396)
     EraEntry("JingPing", "LiuSong", 423, 424),  \* 36: 景平 (regime.rs:402)
     EraEntry("YuanJia", "LiuSong", 424, 453),  \* 37: 元嘉 (regime.rs:408)
     EraEntry("XiaoJian", "LiuSong", 454, 456),  \* 38: 孝建 (regime.rs:414)
     EraEntry("DaMing", "LiuSong", 457, 464),  \* 39: 大明 (regime.rs:420)
     EraEntry("YongGuang", "LiuSong", 465, 465),  \* 40: 永光 (regime.rs:426)
     EraEntry("JingHe", "LiuSong", 465, 465),  \* 41: 景和 (regime.rs:432)
     EraEntry("TaiShi", "LiuSong", 465, 471),  \* 42: 泰始 (regime.rs:438)
     EraEntry("TaiYu", "LiuSong", 472, 472),  \* 43: 泰豫 (regime.rs:444)
     EraEntry("YuanHui", "LiuSong", 473, 477),  \* 44: 元徽 (regime.rs:450)
     EraEntry("ShengMing", "LiuSong", 477, 479),  \* 45: 昇明 (regime.rs:456)
     EraEntry("JianYuan", "SouthernQi", 479, 482),  \* 46: 建元 (regime.rs:463)
     EraEntry("YongMing", "SouthernQi", 483, 493),  \* 47: 永明 (regime.rs:469)
     EraEntry("LongChang", "SouthernQi", 494, 494),  \* 48: 隆昌 (regime.rs:475)
     EraEntry("YanXing", "SouthernQi", 494, 494),  \* 49: 延興 (regime.rs:481)
     EraEntry("JianWu", "SouthernQi", 494, 498),  \* 50: 建武 (regime.rs:487)
     EraEntry("YongTai", "SouthernQi", 498, 498),  \* 51: 永泰 (regime.rs:493)
     EraEntry("YongYuan", "SouthernQi", 499, 501),  \* 52: 永元 (regime.rs:499)
     EraEntry("ZhongXing", "SouthernQi", 501, 502),  \* 53: 中興 (regime.rs:505)
     EraEntry("TianJian", "Liang", 502, 519),  \* 54: 天監 (regime.rs:512)
     EraEntry("PuTong", "Liang", 520, 527),  \* 55: 普通 (regime.rs:518)
     EraEntry("DaTong1", "Liang", 527, 529),  \* 56: 大通 (regime.rs:524)
     EraEntry("ZhongDaTong1", "Liang", 529, 534),  \* 57: 中大通 (regime.rs:530)
     EraEntry("DaTong2", "Liang", 535, 546),  \* 58: 大同 (regime.rs:536)
     EraEntry("ZhongDaTong2", "Liang", 546, 547),  \* 59: 中大同 (regime.rs:542)
     EraEntry("TaiQing", "Liang", 547, 549),  \* 60: 太清 (regime.rs:548)
     EraEntry("DaBao", "Liang", 550, 551),  \* 61: 大寶 (regime.rs:554)
     EraEntry("ChengSheng", "Liang", 552, 555),  \* 62: 承聖 (regime.rs:560)
     EraEntry("TianCheng", "Liang", 555, 555),  \* 63: 天成 (regime.rs:566)
     EraEntry("YongDing", "Chen", 557, 559),  \* 64: 永定 (regime.rs:573)
     EraEntry("TianJia", "Chen", 560, 566),  \* 65: 天嘉 (regime.rs:579)
     EraEntry("TianKang", "Chen", 566, 566),  \* 66: 天康 (regime.rs:585)
     EraEntry("GuangDa", "Chen", 567, 568),  \* 67: 光大 (regime.rs:591)
     EraEntry("TaiJian", "Chen", 569, 582),  \* 68: 太建 (regime.rs:597)
     EraEntry("ZhiDe", "Chen", 583, 586),  \* 69: 至德 (regime.rs:603)
     EraEntry("ZhenMing", "Chen", 587, 589),  \* 70: 禎明 (regime.rs:609)
     EraEntry("DengGuo", "NorthernWei", 386, 396),  \* 71: 登國 (regime.rs:616)
     EraEntry("HuangShi", "NorthernWei", 396, 398),  \* 72: 皇始 (regime.rs:622)
     EraEntry("TianXing", "NorthernWei", 398, 404),  \* 73: 天興 (regime.rs:628)
     EraEntry("TianCi", "NorthernWei", 404, 409),  \* 74: 天賜 (regime.rs:634)
     EraEntry("YongXing", "NorthernWei", 409, 413),  \* 75: 永興 (regime.rs:640)
     EraEntry("ShenRui", "NorthernWei", 414, 416),  \* 76: 神瑞 (regime.rs:646)
     EraEntry("TaiChang2", "NorthernWei", 416, 423),  \* 77: 泰常 (regime.rs:652)
     EraEntry("ShiGuang", "NorthernWei", 424, 428),  \* 78: 始光 (regime.rs:658)
     EraEntry("ShenJia", "NorthernWei", 428, 431),  \* 79: 神麚 (regime.rs:664)
     EraEntry("YanHe", "NorthernWei", 432, 435),  \* 80: 延和 (regime.rs:670)
     EraEntry("TaiYan", "NorthernWei", 435, 440),  \* 81: 太延 (regime.rs:676)
     EraEntry("TaiPingZhenJun", "NorthernWei", 440, 451),  \* 82: 太平真君 (regime.rs:682)
     EraEntry("ZhengPing", "NorthernWei", 451, 452),  \* 83: 正平 (regime.rs:688)
     EraEntry("XingAn", "NorthernWei", 452, 454),  \* 84: 興安 (regime.rs:694)
     EraEntry("XingGuang", "NorthernWei", 454, 455),  \* 85: 興光 (regime.rs:700)
     EraEntry("TaiAn", "NorthernWei", 455, 459),  \* 86: 太安 (regime.rs:706)
     EraEntry("HePing", "NorthernWei", 460, 465),  \* 87: 和平 (regime.rs:712)
     EraEntry("TianAn", "NorthernWei", 466, 467),  \* 88: 天安 (regime.rs:718)
     EraEntry("HuangXing", "NorthernWei", 467, 471),  \* 89: 皇興 (regime.rs:724)
     EraEntry("YanXing", "NorthernWei", 471, 476),  \* 90: 延興 (regime.rs:730)
     EraEntry("ChengMing", "NorthernWei", 476, 476),  \* 91: 承明 (regime.rs:736)
     EraEntry("TaiHe", "NorthernWei", 477, 499),  \* 92: 太和 (regime.rs:742)
     EraEntry("JingMing", "NorthernWei", 500, 504),  \* 93: 景明 (regime.rs:748)
     EraEntry("ZhengShi", "NorthernWei", 504, 508),  \* 94: 正始 (regime.rs:754)
     EraEntry("YongPing", "NorthernWei", 508, 512),  \* 95: 永平 (regime.rs:760)
     EraEntry("YanChang", "NorthernWei", 512, 515),  \* 96: 延昌 (regime.rs:766)
     EraEntry("XiPing", "NorthernWei", 516, 518),  \* 97: 熙平 (regime.rs:772)
     EraEntry("ShenGui", "NorthernWei", 518, 520),  \* 98: 神龜 (regime.rs:778)
     EraEntry("ZhengGuang", "NorthernWei", 520, 525),  \* 99: 正光 (regime.rs:784)
     EraEntry("XiaoChang", "NorthernWei", 525, 528),  \* 100: 孝昌 (regime.rs:790)
     EraEntry("WuTai", "NorthernWei", 528, 528),  \* 101: 武泰 (regime.rs:796)
     EraEntry("JianYi", "NorthernWei", 528, 528),  \* 102: 建義 (regime.rs:802)
     EraEntry("YongAn", "NorthernWei", 528, 530),  \* 103: 永安 (regime.rs:808)
     EraEntry("JianMing", "NorthernWei", 530, 531),  \* 104: 建明 (regime.rs:814)
     EraEntry("PuTai", "NorthernWei", 531, 531),  \* 105: 普泰 (regime.rs:820)
     EraEntry("ZhongXing", "NorthernWei", 531, 532),  \* 106: 中興 (regime.rs:826)
     EraEntry("TaiChang1", "NorthernWei", 532, 532),  \* 107: 太昌 (regime.rs:832)
     EraEntry("YongXing", "NorthernWei", 409, 413),  \* 108: 永興 (regime.rs:838)
     EraEntry("YongXi", "NorthernWei", 532, 534),  \* 109: 永熙 (regime.rs:844)
     EraEntry("YuanXi1", "HanZhao", 304, 308),  \* 110: 元熙 (regime.rs:851)
     EraEntry("HeRui", "HanZhao", 309, 310),  \* 111: 河瑞 (regime.rs:857)
     EraEntry("GuangXing", "HanZhao", 310, 311),  \* 112: 光興 (regime.rs:863)
     EraEntry("JiaPing", "HanZhao", 311, 315),  \* 113: 嘉平 (regime.rs:869)
     EraEntry("LinJia", "HanZhao", 316, 318),  \* 114: 麟嘉 (regime.rs:875)
     EraEntry("GuangChu", "HanZhao", 318, 329),  \* 115: 光初 (regime.rs:881)
     EraEntry("JianPing", "LaterZhao", 330, 333),  \* 116: 建平 (regime.rs:888)
     EraEntry("JianWu", "LaterZhao", 335, 348),  \* 117: 建武 (regime.rs:894)
     EraEntry("TaiNing", "LaterZhao", 349, 349),  \* 118: 太寧 (regime.rs:900)
     EraEntry("QingLong", "LaterZhao", 350, 350),  \* 119: 青龍 (regime.rs:906)
     EraEntry("TaiWu", "ChengHan", 303, 304),  \* 120: 太武 (regime.rs:913)
     EraEntry("YanPing", "ChengHan", 306, 310),  \* 121: 晏平 (regime.rs:919)
     EraEntry("YuHeng", "ChengHan", 311, 334),  \* 122: 玉衡 (regime.rs:925)
     EraEntry("HanXing", "ChengHan", 338, 343),  \* 123: 漢興 (regime.rs:931)
     EraEntry("TaiChu", "FormerLiang", 314, 320),  \* 124: 太初 (regime.rs:938)
     EraEntry("JianXing", "FormerLiang", 317, 320),  \* 125: 建興 (regime.rs:944)
     EraEntry("YuanXi3", "FormerYan", 352, 357),  \* 126: 元璽 (regime.rs:951)
     EraEntry("GuangShou", "FormerYan", 357, 360),  \* 127: 光壽 (regime.rs:957)
     EraEntry("JianXi", "FormerYan", 360, 370),  \* 128: 建熙 (regime.rs:963)
     EraEntry("HuangShi", "FormerQin", 351, 355),  \* 129: 皇始 (regime.rs:970)
     EraEntry("ShouGuang", "FormerQin", 355, 357),  \* 130: 壽光 (regime.rs:976)
     EraEntry("GanLu", "FormerQin", 359, 364),  \* 131: 甘露 (regime.rs:982)
     EraEntry("JianYuan", "FormerQin", 365, 385),  \* 132: 建元 (regime.rs:988)
     EraEntry("TaiChu", "FormerQin", 386, 394),  \* 133: 太初 (regime.rs:994)
     EraEntry("JianChu", "LaterQin", 386, 394),  \* 134: 建初 (regime.rs:1001)
     EraEntry("HuangChu", "LaterQin", 394, 399),  \* 135: 皇初 (regime.rs:1007)
     EraEntry("HongShi", "LaterQin", 399, 416),  \* 136: 弘始 (regime.rs:1013)
     EraEntry("JianXing", "LaterYan", 386, 396),  \* 137: 建興 (regime.rs:1020)
     EraEntry("ChangLe", "LaterYan", 399, 401),  \* 138: 長樂 (regime.rs:1026)
     EraEntry("GuangShi", "LaterYan", 401, 406),  \* 139: 光始 (regime.rs:1032)
     EraEntry("JianShi", "LaterYan", 407, 407),  \* 140: 建始 (regime.rs:1038)
     EraEntry("JianYi", "WesternQin", 385, 388),  \* 141: 建義 (regime.rs:1045)
     EraEntry("TaiChu", "WesternQin", 388, 400),  \* 142: 太初 (regime.rs:1051)
     EraEntry("GengShi", "WesternQin", 409, 412),  \* 143: 更始 (regime.rs:1057)
     EraEntry("JianHong", "WesternQin", 420, 428),  \* 144: 建弘 (regime.rs:1063)
     EraEntry("TaiAn", "LaterLiang", 386, 389),  \* 145: 太安 (regime.rs:1070)
     EraEntry("LinJia", "LaterLiang", 389, 396),  \* 146: 麟嘉 (regime.rs:1076)
     EraEntry("LongFei", "LaterLiang", 396, 399),  \* 147: 龍飛 (regime.rs:1082)
     EraEntry("TaiChu", "SouthernLiang", 397, 399),  \* 148: 太初 (regime.rs:1089)
     EraEntry("JianHe", "SouthernLiang", 400, 402),  \* 149: 建和 (regime.rs:1095)
     EraEntry("HongChang", "SouthernLiang", 402, 404),  \* 150: 弘昌 (regime.rs:1101)
     EraEntry("JiaPing", "SouthernLiang", 408, 414),  \* 151: 嘉平 (regime.rs:1107)
     EraEntry("JianPing", "SouthernYan", 400, 405),  \* 152: 建平 (regime.rs:1114)
     EraEntry("TaiShang", "SouthernYan", 405, 410),  \* 153: 太上 (regime.rs:1120)
     EraEntry("GengZi", "WesternLiang", 400, 404),  \* 154: 庚子 (regime.rs:1127)
     EraEntry("JianChu", "WesternLiang", 405, 417),  \* 155: 建初 (regime.rs:1133)
     EraEntry("ShenXi", "NorthernLiang", 397, 399),  \* 156: 神璽 (regime.rs:1140)
     EraEntry("TianXi", "NorthernLiang", 399, 401),  \* 157: 天璽 (regime.rs:1146)
     EraEntry("YongAn", "NorthernLiang", 401, 412),  \* 158: 永安 (regime.rs:1152)
     EraEntry("XuanShi", "NorthernLiang", 412, 427),  \* 159: 玄始 (regime.rs:1158)
     EraEntry("ChengPing", "NorthernLiang", 443, 460),  \* 160: 承平 (regime.rs:1164)
     EraEntry("LongSheng", "XiaState", 407, 413),  \* 161: 龍昇 (regime.rs:1171)
     EraEntry("FengXiang", "XiaState", 413, 418),  \* 162: 鳳翔 (regime.rs:1177)
     EraEntry("ChangWu", "XiaState", 418, 419),  \* 163: 昌武 (regime.rs:1183)
     EraEntry("ZhenXing", "XiaState", 419, 425),  \* 164: 真興 (regime.rs:1189)
     EraEntry("ChengGuang", "XiaState", 425, 428),  \* 165: 承光 (regime.rs:1195)
     EraEntry("ZhengShi", "NorthernYan", 407, 409),  \* 166: 正始 (regime.rs:1202)
     EraEntry("TaiPing", "NorthernYan", 409, 430) >>  \* 167: 太平 (regime.rs:1208)

\* default_regime
default_regime(b) ==
  CASE b = "JinShu"   -> "EasternJin"
    [] b = "SongShu"  -> "LiuSong"
    [] b = "NanQiShu" -> "SouthernQi"
    [] b = "LiangShu" -> "Liang"
    [] b = "ChenShu"  -> "Chen"
    [] b = "WeiShu"   -> "NorthernWei"

\* `for e in ERA_NAMES { if cond(e) { return .. } }` and `.iter().find(cond)`:
\* the first index of the catalogue among those that satisfy the condition.
first_index(matching) ==
  IF matching = {} THEN None
  ELSE Some(CHOOSE i \in matching : \A j \in matching : i <= j)

\* A resolve_era whose first loop ignores the book.
resolve_era_nobook(era, b) ==
  LET any == first_index({i \in 1..Len(ERA_NAMES) : ERA_NAMES[i].name = era})
  IN  IF IsSome(any) THEN Some(ERA_NAMES[Unwrap(any)].regime) ELSE None

\* resolve_era
resolve_era(era, b) ==
  LET default == default_regime(b)
      first == first_index({i \in 1..Len(ERA_NAMES) :
                              ERA_NAMES[i].name = era /\ ERA_NAMES[i].regime = default})
      any   == first_index({i \in 1..Len(ERA_NAMES) : ERA_NAMES[i].name = era})
  IN  IF IsSome(first) THEN Some(ERA_NAMES[Unwrap(first)].regime)
      ELSE IF IsSome(any) THEN Some(ERA_NAMES[Unwrap(any)].regime)
      ELSE None

\* An exact_ad_year that forgets the era years start at 1.
exact_ad_year_off_by_one(regime_chinese, era, year) ==
  LET entry == first_index({i \in 1..Len(ERA_NAMES) :
                 as_chinese(ERA_NAMES[i].regime) = regime_chinese /\ ERA_NAMES[i].name = era})
  IN  IF IsSome(entry) THEN Some(ERA_NAMES[Unwrap(entry)].start_ad + year) ELSE None

\* exact_ad_year (u16 arithmetic)
exact_ad_year(regime_chinese, era, year) ==
  LET entry == first_index({i \in 1..Len(ERA_NAMES) :
                 as_chinese(ERA_NAMES[i].regime) = regime_chinese /\ ERA_NAMES[i].name = era})
  IN  IF IsSome(entry)
      THEN Some((ERA_NAMES[Unwrap(entry)].start_ad + (year - 1)) % 65536)
      ELSE None

\* The distinct era names of the catalogue, and a name that is not in it (不存在).
EraNames == {ERA_NAMES[i].name : i \in 1..Len(ERA_NAMES)}
UnknownName == "BuCunZai"

(***************************************************************************)
(* event.rs: the Chinese numeral parser                                     *)
(***************************************************************************)

\* The characters a numeral string is drawn from: the digits 一..九, 十, 元,
\* and the non-numerals 百 and 太.
CnDigits == <<"yi", "er", "san", "si", "wu", "liu", "qi", "ba", "jiu">>
Chars == {CnDigits[i] : i \in 1..9} \cup {"shi", "yuan", "bai", "tai"}

\* cn_digit
cn_digit(c) ==
  CASE c = "yi"  -> Some(1)
    [] c = "er"  -> Some(2)
    [] c = "san" -> Some(3)
    [] c = "si"  -> Some(4)
    [] c = "wu"  -> Some(5)
    [] c = "liu" -> Some(6)
    [] c = "qi"  -> Some(7)
    [] c = "ba"  -> Some(8)
    [] c = "jiu" -> Some(9)
    [] OTHER     -> None

\* A parse_cn_number whose single-character arm comes before the 十 arm.
parse_cn_number_arms_swapped(s) ==
  IF s = <<"yuan">> THEN Some(1)
  ELSE IF Len(s) = 1 THEN cn_digit(s[1])
  ELSE IF Len(s) = 2 /\ s[1] = "shi"
       THEN (IF IsSome(cn_digit(s[2])) THEN Some(10 + Unwrap(cn_digit(s[2]))) ELSE None)
  ELSE IF Len(s) = 2 /\ s[2] = "shi"
       THEN (IF IsSome(cn_digit(s[1])) THEN Some(Unwrap(cn_digit(s[1])) * 10) ELSE None)
  ELSE IF Len(s) = 3 /\ s[2] = "shi"
       THEN (IF IsSome(cn_digit(s[1])) /\ IsSome(cn_digit(s[3]))
             THEN Some(Unwrap(cn_digit(s[1])) * 10 + Unwrap(cn_digit(s[3])))
             ELSE None)
  ELSE None

\* parse_cn_number: the arms of the match, in source order (u8 result)
parse_cn_number(s) ==
  IF s = <<"yuan">> THEN Some(1)
  ELSE IF Len(s) = 1 /\ s[1] = "shi" THEN Some(10)
  ELSE IF Len(s) = 2 /\ s[1] = "shi"
       THEN (IF IsSome(cn_digit(s[2])) THEN Some((10 + Unwrap(cn_digit(s[2]))) % 256) ELSE None)
  ELSE IF Len(s) = 1 THEN cn_digit(s[1])
  ELSE IF Len(s) = 2 /\ s[2] = "shi"
       THEN (IF IsSome(cn_digit(s[1])) THEN Some((Unwrap(cn_digit(s[1])) * 10) % 256) ELSE None)
  ELSE IF Len(s) = 3 /\ s[2] = "shi"
       THEN (IF IsSome(cn_digit(s[1])) /\ IsSome(cn_digit(s[3]))
             THEN Some((Unwrap(cn_digit(s[1])) * 10 + Unwrap(cn_digit(s[3]))) % 256)
             ELSE None)
  ELSE None

(***************************************************************************)
(* Pure functions: the inputs are drawn by Init, the action applies the     *)
(* function and records what it returns.                                    *)
(***************************************************************************)

MaxStrLen == 4

Strings(n) == UNION {[1..k -> Chars] : k \in 0..n}

\* The years exact_ad_year is applied to.
AdYears == {1, 2, 14, 23, 30, 99}

RegimeNames == {as_chinese(r) : r \in Regimes} \cup {UnknownName}

OtherIdle == ScanIdle /\ ExtractIdle /\ TimelineIdle
otherVars == <<scanVars, extractVars, timelineVars>>

InitResolve ==
  /\ call \in [fn : {"resolve_era"}, era_name : EraNames \cup {UnknownName}, book : Books]
  /\ ret = None /\ pc = "call" /\ OtherIdle

Call_resolve_era ==
  /\ pc = "call" /\ call.fn = "resolve_era"
  /\ ret' = resolve_era(call.era_name, call.book)
  /\ pc' = "ret"
  /\ UNCHANGED <<call, otherVars>>

SpecResolve == InitResolve /\ [][Call_resolve_era]_vars

InitAdYear ==
  /\ call \in [fn : {"exact_ad_year"}, regime : RegimeNames,
               era_name : EraNames \cup {UnknownName}, year : AdYears]
  /\ ret = None /\ pc = "call" /\ OtherIdle

Call_exact_ad_year ==
  /\ pc = "call" /\ call.fn = "exact_ad_year"
  /\ ret' = exact_ad_year(call.regime, call.era_name, call.year)
  /\ pc' = "ret"
  /\ UNCHANGED <<call, otherVars>>

SpecAdYear == InitAdYear /\ [][Call_exact_ad_year]_vars

InitNumber ==
  /\ call \in [fn : {"parse_cn_number"}, s : Strings(MaxStrLen)]
  /\ ret = None /\ pc = "call" /\ OtherIdle

Call_parse_cn_number ==
  /\ pc = "call" /\ call.fn = "parse_cn_number"
  /\ ret' = parse_cn_number(call.s)
  /\ pc' = "ret"
  /\ UNCHANGED <<call, otherVars>>

SpecNumber == InitNumber /\ [][Call_parse_cn_number]_vars

(***************************************************************************)
(* event.rs: EventScanner::scan_file.  The regular expressions are not      *)
(* modelled: what they match in the content is the input of each step (the  *)
(* byte offsets of the matches of one captures_iter, in increasing order).  *)
(* A TimeRef keeps era, regime, year and byte_offset; an Event of this      *)
(* section keeps the fields time attribution writes (kind, time,            *)
(* source_file, byte_offset).                                               *)
(***************************************************************************)

MaxLen == 3
MaxFileEvents == 2

\* The era and the year numerals re_time matches in the scanned file: 太和 with
\* 元, 三 or 十十 (matched by [一二三四五六七八九十]{1,3} and refused by the parser).
ScanEra == "TaiHe"
ScanNumerals == {<<"yuan">>, <<"san">>, <<"shi", "shi">>}
ScanBooks == {"SongShu", "WeiShu"}

\* The elements of a set of numbers as an ascending sequence.
RECURSIVE Ascending(_)
Ascending(S) ==
  IF S = {} THEN <<>>
  ELSE LET m == CHOOSE x \in S : \A y \in S : x <= y
       IN  <<m>> \o Ascending(S \ {m})

\* `.iter().rev().find(cond)`: the last index among those that satisfy the condition.
last_index(matching) ==
  IF matching = {} THEN None
  ELSE Some(CHOOSE i \in matching : \A j \in matching : j <= i)

\* extract_times: one TimeRef per match of re_time whose numeral parses.
\* `numeral` maps the offset of each match to the year numeral captured there.
extract_times(numeral, b) ==
  LET kept == Ascending({o \in DOMAIN numeral : IsSome(parse_cn_number(numeral[o]))})
      resolved == resolve_era(ScanEra, b)
      regime == IF IsSome(resolved) THEN Unwrap(resolved) ELSE default_regime(b)
  IN  [i \in 1..Len(kept) |->
         << kept[i],
            [era |-> ScanEra, regime |-> as_chinese(regime),
             year |-> Unwrap(parse_cn_number(numeral[kept[i]])),
             byte_offset |-> kept[i]] >>]

\* A find_time_context without `.rev()`: the first preceding time reference.
find_time_context_first(ts, event_offset) ==
  LET found == first_index({i \in 1..Len(ts) : ts[i][1] < event_offset})
  IN  IF IsSome(found) THEN Some(ts[Unwrap(found)][2]) ELSE None

\* find_time_context
find_time_context(ts, event_offset) ==
  LET found == last_index({i \in 1..Len(ts) : ts[i][1] < event_offset})
  IN  IF IsSome(found) THEN Some(ts[Unwrap(found)][2]) ELSE None

\* A build_time_scopes that ends every scope at the end of the file.
build_time_scopes_to_eof(ts, len, source_file) ==
  [i \in 1..Len(ts) |->
     [time |-> ts[i][2],
      span |-> [file |-> source_file, byte_start |-> ts[i][1], byte_end |-> len]]]

\* build_time_scopes
build_time_scopes(ts, len, source_file) ==
  [i \in 1..Len(ts) |->
     [time |-> ts[i][2],
      span |-> [file |-> source_file,
                byte_start |-> ts[i][1],
                byte_end |-> IF i + 1 <= Len(ts) THEN ts[i + 1][1] ELSE len]]]

Offsets == 0..(content_len - 1)

Init ==
  /\ call \in [fn : {"scan_file"}, book : ScanBooks, source_file : {"test.txt"}]
  /\ ret = None
  /\ pc = "extract_times"
  /\ content_len \in 1..MaxLen
  /\ times = <<>> /\ scopes = <<>> /\ events = <<>>
  /\ ExtractIdle /\ TimelineIdle

scanOther == <<call, ret, extractVars, timelineVars>>

\* let times = self.extract_times(content, book);
ExtractTimes ==
  /\ pc = "extract_times"
  /\ \E matched \in SUBSET Offsets :
       \E numeral \in [matched -> ScanNumerals] :
         times' = extract_times(numeral, call.book)
  /\ pc' = "build_time_scopes"
  /\ UNCHANGED <<content_len, scopes, events, scanOther>>

\* let scopes = Self::build_time_scopes(&times, content.len(), source_file);
BuildTimeScopes ==
  /\ pc = "build_time_scopes"
  /\ scopes' = build_time_scopes(times, content_len, call.source_file)
  /\ pc' = "appointments"
  /\ UNCHANGED <<content_len, times, events, scanOther>>

\* One `for caps in self.re_X.captures_iter(content)` loop of scan_file: every
\* match whose person is not a false-positive name pushes an event that takes
\* the time context of the start of the match.
ScanLoop(kind) ==
  \E matched \in SUBSET Offsets :
    /\ Len(events) + Cardinality(matched) <= MaxFileEvents
    /\ \E false_positive \in SUBSET matched :
         LET kept == Ascending(matched \ false_positive)
         IN  events' = events \o
               [i \in 1..Len(kept) |->
                  [kind |-> kind,
                   time |-> find_time_context(times, kept[i]),
                   source_file |-> call.source_file,
                   byte_offset |-> kept[i]]]

ScanAppointments ==
  /\ pc = "appointments"
  /\ ScanLoop("Appointment")
  /\ pc' = "promotions"
  /\ UNCHANGED <<content_len, times, scopes, scanOther>>

ScanPromotions ==
  /\ pc = "promotions"
  /\ ScanLoop("Promotion")
  /\ pc' = "accessions"
  /\ UNCHANGED <<content_len, times, scopes, scanOther>>

ScanAccessions ==
  /\ pc = "accessions"
  /\ ScanLoop("Accession")
  /\ pc' = "battles"
  /\ UNCHANGED <<content_len, times, scopes, scanOther>>

ScanBattles ==
  /\ pc = "battles"
  /\ ScanLoop("Battle")
  /\ pc' = "deaths"
  /\ UNCHANGED <<content_len, times, scopes, scanOther>>

ScanDeaths ==
  /\ pc = "deaths"
  /\ ScanLoop("Death")
  /\ pc' = "done"
  /\ UNCHANGED <<content_len, times, scopes, scanOther>>

Next ==
  \/ ExtractTimes
  \/ BuildTimeScopes
  \/ ScanAppointments
  \/ ScanPromotions
  \/ ScanAccessions
  \/ ScanBattles
  \/ ScanDeaths

Spec == Init /\ [][Next]_vars

(***************************************************************************)
(* main.rs: the confidence filter of run_extract.  all_events is what       *)
(* scan_corpus returned; each event has its own (source_file, byte_offset,  *)
(* kind), here the byte offset is its position in the list.                 *)
(***************************************************************************)

MaxEvents == 3

\* struct PlaceRef
PlaceRef(name) == [name |-> name, is_qiao |-> FALSE, role_suffix |-> None]

\* enum EventKind
Appointment(person, place) ==
  [type |-> "Appointment", person |-> person, new_title |-> "GuanJunJiangJun", place |-> place]
Promotion(person, place) ==
  [type |-> "Promotion", person |-> person, verb |-> "bai", new_title |-> "CiShi", place |-> place]
Accession(person) ==
  [type |-> "Accession", person |-> person, verb |-> "jiwei"]
Battle(person, target_place) ==
  [type |-> "Battle", person |-> person, verb |-> "gong", target |-> "JianKangCheng",
   target_place |-> target_place]
Death(person) ==
  [type |-> "Death", person |-> person, verb |-> "zu"]

\* struct Event
Event(kind, locations) ==
  [kind |-> kind, time |-> None, source_file |-> "test.txt", byte_offset |-> 0,
   context |-> "context", locations |-> locations]

\* The events the scanner is taken to have extracted: two persons (王進, 劉裕),
\* two places (荊州, 益州), every kind, with and without a structured place and
\* with zero, one or two context-window locations.
EventShapes ==
  { Event(Appointment("WangJin", Some(PlaceRef("JingZhou"))), <<>>),
    Event(Appointment("LiuYu", None), <<PlaceRef("JingZhou")>>),
    Event(Promotion("WangJin", Some(PlaceRef("YiZhou"))), <<PlaceRef("JingZhou"), PlaceRef("YiZhou")>>),
    Event(Promotion("LiuYu", Some(PlaceRef("JingZhou"))), <<>>),
    Event(Accession("WangJin"), <<PlaceRef("YiZhou")>>),
    Event(Accession("LiuYu"), <<>>),
    Event(Battle("WangJin", None), <<PlaceRef("JingZhou"), PlaceRef("JingZhou")>>),
    Event(Battle("LiuYu", Some(PlaceRef("YiZhou"))), <<>>),
    Event(Death("WangJin"), <<>>),
    Event(Death("LiuYu"), <<PlaceRef("YiZhou")>>) }

\* Event::person_name
person_name(e) == e.kind.person

\* The structured place of an event: Appointment/Promotion `place`, Battle `target_place`.
structured_place(e) ==
  IF e.kind.type \in {"Appointment", "Promotion"} THEN e.kind.place
  ELSE IF e.kind.type = "Battle" THEN e.kind.target_place
  ELSE None

\* Event::all_location_names
all_location_names(e) ==
  [i \in 1..Len(e.locations) |-> e.locations[i].name]
    \o (IF IsSome(structured_place(e)) THEN <<Unwrap(structured_place(e)).name>> ELSE <<>>)

\* *map.entry(key).or_insert(0) += 1
bump(freq, key) ==
  IF key \in DOMAIN freq THEN [freq EXCEPT ![key] = @ + 1]
  ELSE [k \in DOMAIN freq \cup {key} |-> IF k = key THEN 1 ELSE freq[k]]

\* map.get(key).copied().unwrap_or(0)
freq_get(freq, key) == IF key \in DOMAIN freq THEN freq[key] ELSE 0

RECURSIVE bump_all(_, _)
bump_all(freq, keys) ==
  IF keys = <<>> THEN freq ELSE bump_all(bump(freq, Head(keys)), Tail(keys))

\* The loop that fills person_freq
RECURSIVE count_persons(_, _)
count_persons(freq, es) ==
  IF es = <<>> THEN freq
  ELSE count_persons(bump(freq, person_name(Head(es))), Tail(es))

\* The loop that fills location_freq
RECURSIVE count_locations(_, _)
count_locations(freq, es) ==
  IF es = <<>> THEN freq
  ELSE count_locations(bump_all(freq, all_location_names(Head(es))), Tail(es))

\* A threshold that lets a person with a single event through.
is_high_confidence_any(person_count) == person_count >= 1

\* if person_count >= 2
is_high_confidence(person_count) == person_count >= 2

\* A filter that retains the locations and leaves the structured place alone.
filter_event_locations_only(e, loc_freq) ==
  [e EXCEPT !.locations = SelectSeq(e.locations, LAMBDA l : freq_get(loc_freq, l.name) >= 2)]

\* The body of the high-confidence branch: locations.retain(..), then the
\* match that clears a structured place below the threshold.
filter_event(e, loc_freq) ==
  LET retained == SelectSeq(e.locations, LAMBDA l : freq_get(loc_freq, l.name) >= 2)
      kind ==
        IF e.kind.type \in {"Appointment", "Promotion"}
        THEN IF IsSome(e.kind.place) /\ freq_get(loc_freq, Unwrap(e.kind.place).name) < 2
             THEN [e.kind EXCEPT !.place = None]
             ELSE e.kind
        ELSE IF e.kind.type = "Battle"
        THEN IF IsSome(e.kind.target_place)
                  /\ freq_get(loc_freq, Unwrap(e.kind.target_place).name) < 2
             THEN [e.kind EXCEPT !.target_place = None]
             ELSE e.kind
        ELSE e.kind
  IN  [e EXCEPT !.locations = retained, !.kind = kind]

\* The split loop: `for e in events { if person_count >= 2 {..} else {..} }`
RECURSIVE split_high(_, _, _)
split_high(es, p_freq, loc_freq) ==
  IF es = <<>> THEN <<>>
  ELSE (IF is_high_confidence(freq_get(p_freq, person_name(Head(es))))
        THEN <<filter_event(Head(es), loc_freq)>> ELSE <<>>)
       \o split_high(Tail(es), p_freq, loc_freq)

RECURSIVE split_unstructured(_, _)
split_unstructured(es, p_freq) ==
  IF es = <<>> THEN <<>>
  ELSE (IF is_high_confidence(freq_get(p_freq, person_name(Head(es))))
        THEN <<>> ELSE <<Head(es)>>)
       \o split_unstructured(Tail(es), p_freq)

InitExtract ==
  /\ call = [fn |-> "run_extract"] /\ ret = None
  /\ pc = "frequency_maps"
  /\ \E n \in 0..MaxEvents :
       \E shapes \in [1..n -> EventShapes] :
         all_events = [i \in 1..n |-> [shapes[i] EXCEPT !.byte_offset = i]]
  /\ person_freq = <<>> /\ location_freq = <<>>
  /\ high_confidence = <<>> /\ unstructured = <<>>
  /\ ScanIdle /\ TimelineIdle

extractOther == <<call, ret, scanVars, timelineVars>>

\* Build frequency maps for high-confidence filtering
BuildFrequencyMaps ==
  /\ pc = "frequency_maps"
  /\ person_freq' = count_persons(<<>>, all_events)
  /\ location_freq' = count_locations(<<>>, all_events)
  /\ pc' = "split"
  /\ UNCHANGED <<all_events, high_confidence, unstructured, extractOther>>

\* events.json: split into high-confidence and unstructured
SplitEvents ==
  /\ pc = "split"
  /\ high_confidence' = split_high(all_events, person_freq, location_freq)
  /\ unstructured' = split_unstructured(all_events, person_freq)
  /\ pc' = "written"
  /\ UNCHANGED <<all_events, person_freq, location_freq, extractOther>>

NextExtract == BuildFrequencyMaps \/ SplitEvents

SpecExtract == InitExtract /\ [][NextExtract]_vars

(***************************************************************************)
(* event.rs: Timeline::from_scopes.  The three hash maps of the function    *)
(* are iterated in an order the code does not control (std HashMap with a   *)
(* per-map random state): every order is a possible one.                    *)
(***************************************************************************)

MaxScopes == 3

\* struct TimeScope (with its TimeRef and TextSpan)
TimeScope(regime, era, year, file) ==
  [time |-> [era |-> era, regime |-> regime, year |-> year, byte_offset |-> 0],
   span |-> [file |-> file, byte_start |-> 0, byte_end |-> 1]]

\* The scopes handed to from_scopes are those of scan_corpus: the era of each
\* is one the time pattern matched and its regime the one resolve_era gave, a
\* (regime, era) pair of the catalogue.  北魏/太和 元年 in two files and 二年,
\* 北魏/永興 元年, 漢趙/元熙 元年, 成漢/玉衡 元年.
ScopeUniverse ==
  { TimeScope("BeiWei", "TaiHe", 1, "a.txt"), TimeScope("BeiWei", "TaiHe", 1, "b.txt"),
    TimeScope("BeiWei", "TaiHe", 2, "a.txt"), TimeScope("BeiWei", "YongXing", 1, "a.txt"),
    TimeScope("HanZhao", "YuanXi1", 1, "a.txt"), TimeScope("ChengHan", "YuHeng", 1, "b.txt") }

\* Every sequence that lists the elements of S once: the iteration orders of a
\* HashMap whose keys are S.
RECURSIVE AllOrders(_)
AllOrders(S) ==
  IF S = {} THEN {<<>>}
  ELSE UNION {{<<x>> \o rest : rest \in AllOrders(S \ {x})} : x \in S}

\* slice::sort_by_key, a stable sort: an item goes behind every item whose key
\* is not greater than its own.  The items travel as <<key, item>> pairs.
RECURSIVE insert_pair(_, _)
insert_pair(sorted, p) ==
  IF sorted = <<>> THEN <<p>>
  ELSE IF Head(sorted)[1] <= p[1] THEN <<Head(sorted)>> \o insert_pair(Tail(sorted), p)
  ELSE <<p>> \o sorted

RECURSIVE sort_pairs(_, _)
sort_pairs(sorted, todo) ==
  IF todo = <<>> THEN sorted ELSE sort_pairs(insert_pair(sorted, Head(todo)), Tail(todo))

RECURSIVE items_of(_)
items_of(pairs) ==
  IF pairs = <<>> THEN <<>> ELSE <<Head(pairs)[2]>> \o items_of(Tail(pairs))

sort_by_key(pairs) == items_of(sort_pairs(<<>>, pairs))

\* era_sort_key (usize::MAX is written as the largest 32-bit integer;
\* only its order is read)
era_sort_key(regime_chinese, era) ==
  LET found == first_index({i \in 1..Len(ERA_NAMES) :
                  ERA_NAMES[i].name = era /\ as_chinese(ERA_NAMES[i].regime) = regime_chinese})
  IN  IF IsSome(found) THEN Unwrap(found) ELSE 2147483647

\* A regime key that is the position of the regime in the catalogue.
regime_sort_key_by_catalogue(regime_chinese) ==
  LET found == first_index({i \in 1..Len(ERA_NAMES) :
                  as_chinese(ERA_NAMES[i].regime) = regime_chinese})
  IN  IF IsSome(found) THEN Unwrap(found) ELSE 9999

\* The key of regimes.sort_by_key in from_scopes
regime_sort_key(regime_chinese) ==
  LET found == first_index({i \in 1..Len(ERA_NAMES) :
                  as_chinese(ERA_NAMES[i].regime) = regime_chinese})
  IN  IF IsSome(found) THEN start_ad_year(ERA_NAMES[Unwrap(found)].regime) ELSE 9999

\* A collect_files that pushes the file of every scope.
RECURSIVE collect_files_no_dedup(_, _)
collect_files_no_dedup(m, ss) ==
  IF ss = <<>> THEN m
  ELSE LET s == Head(ss)
           key == <<s.time.regime, s.time.era, s.time.year>>
           files == IF key \in DOMAIN m THEN m[key] ELSE <<>>
       IN  collect_files_no_dedup(
             [k \in DOMAIN m \cup {key} |-> IF k = key THEN Append(files, s.span.file) ELSE m[k]],
             Tail(ss))

\* from_scopes, first loop: (regime, era, year) -> files, each file once
RECURSIVE collect_files(_, _)
collect_files(m, ss) ==
  IF ss = <<>> THEN m
  ELSE LET s == Head(ss)
           key == <<s.time.regime, s.time.era, s.time.year>>
           files == IF key \in DOMAIN m THEN m[key] ELSE <<>>
           pushed == IF \E i \in 1..Len(files) : files[i] = s.span.file
                     THEN files ELSE Append(files, s.span.file)
       IN  collect_files([k \in DOMAIN m \cup {key} |-> IF k = key THEN pushed ELSE m[k]],
                         Tail(ss))

\* struct TimePoint
TimePoint(era, year, files) ==
  [era |-> era, year |-> year, occurrence_count |-> Len(files), files |-> files]

\* from_scopes, second loop: regime -> era -> Vec<TimePoint>, the time points
\* of an era pushed in the order `map_iter` in which the map is iterated.
RECURSIVE pushed_years(_, _, _, _)
pushed_years(m, map_iter, r, e) ==
  IF map_iter = <<>> THEN <<>>
  ELSE LET k == Head(map_iter)
       IN  (IF k[1] = r /\ k[2] = e THEN <<TimePoint(e, k[3], m[k])>> ELSE <<>>)
           \o pushed_years(m, Tail(map_iter), r, e)

group_by_regime(m, map_iter) ==
  [r \in {k[1] : k \in DOMAIN m} |->
     [e \in {k[2] : k \in {k \in DOMAIN m : k[1] = r}} |-> pushed_years(m, map_iter, r, e)]]

\* years.sort_by_key(|tp| tp.year)
RECURSIVE keyed_years(_)
keyed_years(tps) ==
  IF tps = <<>> THEN <<>> ELSE << <<Head(tps).year, Head(tps)>> >> \o keyed_years(Tail(tps))

\* era_map.into_iter().map(|(era, mut years)| { .. EraTimeline { era, years } }),
\* the eras taken in the order `eras`, each with its key for
\* eras.sort_by_key(|e| era_sort_key(&regime, &e.era))
RECURSIVE keyed_eras(_, _, _)
keyed_eras(r, era_map, eras) ==
  IF eras = <<>> THEN <<>>
  ELSE << << era_sort_key(r, Head(eras)),
             [era |-> Head(eras), years |-> sort_by_key(keyed_years(era_map[Head(eras)]))] >> >>
       \o keyed_eras(r, era_map, Tail(eras))

\* regime_map.into_iter().map(|(regime, era_map)| { .. RegimeTimeline { regime, eras } }),
\* the regimes taken in the order `regime_iter`, each with its key for
\* regimes.sort_by_key(..); the era_map of the regime r is iterated in the order
\* era_iter[r].
RECURSIVE keyed_regimes(_, _, _)
keyed_regimes(rm, regime_iter, era_iter) ==
  IF regime_iter = <<>> THEN <<>>
  ELSE LET r == Head(regime_iter)
       IN  << << regime_sort_key(r),
                 [regime |-> r,
                  eras |-> sort_by_key(keyed_eras(r, rm[r], era_iter[r]))] >> >>
           \o keyed_regimes(rm, Tail(regime_iter), era_iter)

\* from_scopes, the rest: the Timeline of the sorted regimes; total_time_points
\* is map.len().
build_timeline(m, rm, regime_iter, era_iter) ==
  [regimes |-> sort_by_key(keyed_regimes(rm, regime_iter, era_iter)),
   total_time_points |-> Cardinality(DOMAIN m)]

RECURSIVE SeqsUpTo(_, _)
SeqsUpTo(S, n) ==
  IF n = 0 THEN {<<>>}
  ELSE LET shorter == SeqsUpTo(S, n - 1)
       IN  shorter \cup {Append(q, x) : q \in {q \in shorter : Len(q) = n - 1}, x \in S}

InitTimeline ==
  /\ call = [fn |-> "from_scopes"] /\ ret = None
  /\ pc = "collect"
  /\ time_index \in SeqsUpTo(ScopeUniverse, MaxScopes)
  /\ map = <<>> /\ regime_map = <<>>
  /\ timeline = None /\ prev_timeline = None
  /\ ScanIdle /\ ExtractIdle

timelineOther == <<call, ret, scanVars, extractVars>>

\* for s in scopes { .. }
CollectFiles ==
  /\ pc = "collect"
  /\ map' = collect_files(<<>>, time_index)
  /\ pc' = "group"
  /\ UNCHANGED <<time_index, regime_map, timeline, prev_timeline, timelineOther>>

\* for ((regime, era, year), files) in &map { .. }
GroupByRegime ==
  /\ pc = "group"
  /\ \E map_iter \in AllOrders(DOMAIN map) :
       regime_map' = group_by_regime(map, map_iter)
  /\ pc' = "sort"
  /\ UNCHANGED <<time_index, map, timeline, prev_timeline, timelineOther>>

\* regime_map.into_iter().map(..).collect(); regimes.sort_by_key(..); Timeline { .. }
SortTimeline ==
  /\ pc = "sort"
  /\ \E regime_iter \in AllOrders(DOMAIN regime_map) :
       \E era_iter \in [DOMAIN regime_map -> UNION {AllOrders(DOMAIN regime_map[r]) : r \in DOMAIN regime_map}] :
         /\ \A r \in DOMAIN regime_map : era_iter[r] \in AllOrders(DOMAIN regime_map[r])
         /\ timeline' = Some(build_timeline(map, regime_map, regime_iter, era_iter))
  /\ pc' = "built"
  /\ UNCHANGED <<time_index, map, regime_map, prev_timeline, timelineOther>>

\* A second run of from_scopes on the same scopes; the first Timeline is kept
\* for comparison.
RunAgain ==
  /\ pc = "built" /\ prev_timeline = None
  /\ prev_timeline' = timeline
  /\ timeline' = None /\ map' = <<>> /\ regime_map' = <<>>
  /\ pc' = "collect"
  /\ UNCHANGED <<time_index, timelineOther>>

NextTimeline == CollectFiles \/ GroupByRegime \/ SortTimeline \/ RunAgain

SpecTimeline == InitTimeline /\ [][NextTimeline]_vars

(***************************************************************************)
(* event.rs: the queries of TimeIndex.  The index queried is one that       *)
(* extraction produced: the era of each scope is a catalogue name and its   *)
(* regime the one extract_times gave it for the book of the file.           *)
(***************************************************************************)

MaxIndexLen == 2

\* extract_times: resolve_era(era, book).unwrap_or_else(|| default_regime(book)),
\* stored as regime.as_chinese()
scope_regime_default(era, b) == as_chinese(default_regime(b))

scope_regime(era, b) ==
  LET resolved == resolve_era(era, b)
  IN  as_chinese(IF IsSome(resolved) THEN Unwrap(resolved) ELSE default_regime(b))

\* The scopes of the index: 太和 and 永興, read in 宋書 and in 魏書, years 1 and 2.
IndexEras == {"TaiHe", "YongXing"}
IndexBooks == {"SongShu", "WeiShu"}
IndexYears == {1, 2}
IndexUniverse ==
  {TimeScope(scope_regime(e, b), e, y, "a.txt") : e \in IndexEras, b \in IndexBooks, y \in IndexYears}

\* The arguments of the queries
QueryEras == IndexEras \cup {UnknownName}
QueryYears == {1, 2, 3}

\* Option::is_none_or
is_none_or(o, y) == o = None \/ Unwrap(o) = y

\* TimeIndex::query
query(ss, era, year) ==
  SelectSeq(ss, LAMBDA s : s.time.era = era /\ is_none_or(year, s.time.year))

\* A query_range whose lower bound is exclusive.
query_range_exclusive(ss, era, year_from, year_to) ==
  SelectSeq(ss, LAMBDA s : s.time.era = era /\ s.time.year > year_from /\ s.time.year <= year_to)

\* TimeIndex::query_range
query_range(ss, era, year_from, year_to) ==
  SelectSeq(ss, LAMBDA s : s.time.era = era /\ s.time.year >= year_from /\ s.time.year <= year_to)

\* TimeIndex::query_regime
query_regime(ss, regime) ==
  SelectSeq(ss, LAMBDA s : s.time.regime = regime)

QueryCalls ==
  [fn : {"query"}, era : QueryEras, year : {None} \cup {Some(y) : y \in QueryYears}]
  \cup [fn : {"query_range"}, era : QueryEras, year_from : QueryYears, year_to : QueryYears]
  \cup [fn : {"query_regime"}, regime : RegimeNames]

InitQuery ==
  /\ call \in QueryCalls
  /\ ret = None /\ pc = "call"
  /\ time_index \in SeqsUpTo(IndexUniverse, MaxIndexLen)
  /\ map = <<>> /\ regime_map = <<>> /\ timeline = None /\ prev_timeline = None
  /\ ScanIdle /\ ExtractIdle

queryOther == <<call, time_index, map, regime_map, timeline, prev_timeline, scanVars, extractVars>>

Call_query ==
  /\ pc = "call" /\ call.fn = "query"
  /\ ret' = query(time_index, call.era, call.year)
  /\ pc' = "ret"
  /\ UNCHANGED queryOther

Call_query_range ==
  /\ pc = "call" /\ call.fn = "query_range"
  /\ ret' = query_range(time_index, call.era, call.year_from, call.year_to)
  /\ pc' = "ret"
  /\ UNCHANGED queryOther

Call_query_regime ==
  /\ pc = "call" /\ call.fn = "query_regime"
  /\ ret' = query_regime(time_index, call.regime)
  /\ pc' = "ret"
  /\ UNCHANGED queryOther

NextQuery == Call_query \/ Call_query_range \/ Call_query_regime

SpecQuery == InitQuery /\ [][NextQuery]_vars

(***************************************************************************)
(* main.rs: parse_time_query and parse_era_year.  A string is the sequence  *)
(* of its characters; a Chinese character is written as one token (the      *)
(* numerals as in cn_digit, 年 as "nian", — as "emdash").                    *)
(***************************************************************************)

\* The characters of each era name of the catalogue
EraChars ==
     ("TaiShi" :> <<"Tai2", "Shi">>)  \* 泰始
  @@ ("XianNing" :> <<"Xian", "Ning">>)  \* 咸寧
  @@ ("TaiKang" :> <<"tai", "Kang">>)  \* 太康
  @@ ("TaiXi" :> <<"tai", "Xi1">>)  \* 太熙
  @@ ("YongXi" :> <<"Yong", "Xi1">>)  \* 永熙
  @@ ("YongPing" :> <<"Yong", "Ping">>)  \* 永平
  @@ ("YuanKang" :> <<"yuan", "Kang">>)  \* 元康
  @@ ("YongKang" :> <<"Yong", "Kang">>)  \* 永康
  @@ ("YongNing" :> <<"Yong", "Ning">>)  \* 永寧
  @@ ("TaiAn" :> <<"tai", "An">>)  \* 太安
  @@ ("YongAn" :> <<"Yong", "An">>)  \* 永安
  @@ ("JianWu" :> <<"Jian1", "Wu">>)  \* 建武
  @@ ("YongXing" :> <<"Yong", "Xing">>)  \* 永興
  @@ ("GuangXi" :> <<"Guang", "Xi1">>)  \* 光熙
  @@ ("YongJia" :> <<"Yong", "Jia1">>)  \* 永嘉
  @@ ("JianXing" :> <<"Jian1", "Xing">>)  \* 建興
  @@ ("DaXing" :> <<"Da", "Xing">>)  \* 大興
  @@ ("YongChang" :> <<"Yong", "Chang2">>)  \* 永昌
  @@ ("TaiNing" :> <<"tai", "Ning">>)  \* 太寧
  @@ ("XianHe" :> <<"Xian", "He1">>)  \* 咸和
  @@ ("XianKang" :> <<"Xian", "Kang">>)  \* 咸康
  @@ ("JianYuan" :> <<"Jian1", "yuan">>)  \* 建元
  @@ ("YongHe" :> <<"Yong", "He1">>)  \* 永和
  @@ ("ShengPing" :> <<"Sheng1", "Ping">>)  \* 升平
  @@ ("LongHe" :> <<"Long1", "He1">>)  \* 隆和
  @@ ("XingNing" :> <<"Xing", "Ning">>)  \* 興寧
  @@ ("TaiHe" :> <<"tai", "He1">>)  \* 太和
  @@ ("XianAn" :> <<"Xian", "An">>)  \* 咸安
  @@ ("NingKang" :> <<"Ning", "Kang">>)  \* 寧康
  @@ ("TaiYuan" :> <<"tai", "yuan">>)  \* 太元
  @@ ("LongAn" :> <<"Long1", "An">>)  \* 隆安
  @@ ("YuanXing" :> <<"yuan", "Xing">>)  \* 元興
  @@ ("YiXi" :> <<"Yi", "Xi1">>)  \* 義熙
  @@ ("YongChu" :> <<"Yong", "Chu">>)  \* 永初
  @@ ("JingPing" :> <<"Jing", "Ping">>)  \* 景平
  @@ ("YuanJia" :> <<"yuan", "Jia1">>)  \* 元嘉
  @@ ("XiaoJian" :> <<"Xiao", "Jian1">>)  \* 孝建
  @@ ("DaMing" :> <<"Da", "Ming">>)  \* 大明
  @@ ("YongGuang" :> <<"Yong", "Guang">>)  \* 永光
  @@ ("JingHe" :> <<"Jing", "He1">>)  \* 景和
  @@ ("TaiYu" :> <<"Tai2", "Yu2">>)  \* 泰豫
  @@ ("YuanHui" :> <<"yuan", "Hui">>)  \* 元徽
  @@ ("ShengMing" :> <<"Sheng2", "Ming">>)  \* 昇明
  @@ ("YongMing" :> <<"Yong", "Ming">>)  \* 永明
  @@ ("LongChang" :> <<"Long1", "Chang2">>)  \* 隆昌
  @@ ("YanXing" :> <<"Yan1", "Xing">>)  \* 延興
  @@ ("YongTai" :> <<"Yong", "Tai2">>)  \* 永泰
  @@ ("YongYuan" :> <<"Yong", "yuan">>)  \* 永元
  @@ ("ZhongXing" :> <<"Zhong", "Xing">>)  \* 中興
  @@ ("TianJian" :> <<"Tian", "Jian2">>)  \* 天監
  @@ ("PuTong" :> <<"Pu", "Tong2">>)  \* 普通
  @@ ("DaTong1" :> <<"Da", "Tong2">>)  \* 大通
  @@ ("ZhongDaTong1" :> <<"Zhong", "Da", "Tong2">>)  \* 中大通
  @@ ("DaTong2" :> <<"Da", "Tong1">>)  \* 大同
  @@ ("ZhongDaTong2" :> <<"Zhong", "Da", "Tong1">>)  \* 中大同
  @@ ("TaiQing" :> <<"tai", "Qing1">>)  \* 太清
  @@ ("DaBao" :> <<"Da", "Bao">>)  \* 大寶
  @@ ("ChengSheng" :> <<"Cheng2", "Sheng3">>)  \* 承聖
  @@ ("TianCheng" :> <<"Tian", "Cheng1">>)  \* 天成
  @@ ("YongDing" :> <<"Yong", "Ding">>)  \* 永定
  @@ ("TianJia" :> <<"Tian", "Jia1">>)  \* 天嘉
  @@ ("TianKang" :> <<"Tian", "Kang">>)  \* 天康
  @@ ("GuangDa" :> <<"Guang", "Da">>)  \* 光大
  @@ ("TaiJian" :> <<"tai", "Jian1">>)  \* 太建
  @@ ("ZhiDe" :> <<"Zhi", "De">>)  \* 至德
  @@ ("ZhenMing" :> <<"Zhen2", "Ming">>)  \* 禎明
  @@ ("DengGuo" :> <<"Deng", "Guo">>)  \* 登國
  @@ ("HuangShi" :> <<"Huang", "Shi">>)  \* 皇始
  @@ ("TianXing" :> <<"Tian", "Xing">>)  \* 天興
  @@ ("TianCi" :> <<"Tian", "Ci">>)  \* 天賜
  @@ ("ShenRui" :> <<"Shen", "Rui">>)  \* 神瑞
  @@ ("TaiChang2" :> <<"Tai2", "Chang1">>)  \* 泰常
  @@ ("ShiGuang" :> <<"Shi", "Guang">>)  \* 始光
  @@ ("ShenJia" :> <<"Shen", "Jia2">>)  \* 神麚
  @@ ("YanHe" :> <<"Yan1", "He1">>)  \* 延和
  @@ ("TaiYan" :> <<"tai", "Yan1">>)  \* 太延
  @@ ("TaiPingZhenJun" :> <<"tai", "Ping", "Zhen1", "Jun">>)  \* 太平真君
  @@ ("ZhengPing" :> <<"Zheng", "Ping">>)  \* 正平
  @@ ("XingAn" :> <<"Xing", "An">>)  \* 興安
  @@ ("XingGuang" :> <<"Xing", "Guang">>)  \* 興光
  @@ ("HePing" :> <<"He1", "Ping">>)  \* 和平
  @@ ("TianAn" :> <<"Tian", "An">>)  \* 天安
  @@ ("HuangXing" :> <<"Huang", "Xing">>)  \* 皇興
  @@ ("ChengMing" :> <<"Cheng2", "Ming">>)  \* 承明
  @@ ("JingMing" :> <<"Jing", "Ming">>)  \* 景明
  @@ ("ZhengShi" :> <<"Zheng", "Shi">>)  \* 正始
  @@ ("YanChang" :> <<"Yan1", "Chang2">>)  \* 延昌
  @@ ("XiPing" :> <<"Xi1", "Ping">>)  \* 熙平
  @@ ("ShenGui" :> <<"Shen", "Gui">>)  \* 神龜
  @@ ("ZhengGuang" :> <<"Zheng", "Guang">>)  \* 正光
  @@ ("XiaoChang" :> <<"Xiao", "Chang2">>)  \* 孝昌
  @@ ("WuTai" :> <<"Wu", "Tai2">>)  \* 武泰
  @@ ("JianYi" :> <<"Jian1", "Yi">>)  \* 建義
  @@ ("JianMing" :> <<"Jian1", "Ming">>)  \* 建明
  @@ ("PuTai" :> <<"Pu", "Tai2">>)  \* 普泰
  @@ ("TaiChang1" :> <<"tai", "Chang2">>)  \* 太昌
  @@ ("YuanXi1" :> <<"yuan", "Xi1">>)  \* 元熙
  @@ ("HeRui" :> <<"He2", "Rui">>)  \* 河瑞
  @@ ("GuangXing" :> <<"Guang", "Xing">>)  \* 光興
  @@ ("JiaPing" :> <<"Jia1", "Ping">>)  \* 嘉平
  @@ ("LinJia" :> <<"Lin", "Jia1">>)  \* 麟嘉
  @@ ("GuangChu" :> <<"Guang", "Chu">>)  \* 光初
  @@ ("JianPing" :> <<"Jian1", "Ping">>)  \* 建平
  @@ ("QingLong" :> <<"Qing2", "Long2">>)  \* 青龍
  @@ ("TaiWu" :> <<"tai", "Wu">>)  \* 太武
  @@ ("YanPing" :> <<"Yan2", "Ping">>)  \* 晏平
  @@ ("YuHeng" :> <<"Yu1", "Heng">>)  \* 玉衡
  @@ ("HanXing" :> <<"Han", "Xing">>)  \* 漢興
  @@ ("TaiChu" :> <<"tai", "Chu">>)  \* 太初
  @@ ("YuanXi3" :> <<"yuan", "Xi2">>)  \* 元璽
  @@ ("GuangShou" :> <<"Guang", "Shou">>)  \* 光壽
  @@ ("JianXi" :> <<"Jian1", "Xi1">>)  \* 建熙
  @@ ("ShouGuang" :> <<"Shou", "Guang">>)  \* 壽光
  @@ ("GanLu" :> <<"Gan", "Lu">>)  \* 甘露
  @@ ("JianChu" :> <<"Jian1", "Chu">>)  \* 建初
  @@ ("HuangChu" :> <<"Huang", "Chu">>)  \* 皇初
  @@ ("HongShi" :> <<"Hong", "Shi">>)  \* 弘始
  @@ ("ChangLe" :> <<"Chang3", "Le">>)  \* 長樂
  @@ ("GuangShi" :> <<"Guang", "Shi">>)  \* 光始
  @@ ("JianShi" :> <<"Jian1", "Shi">>)  \* 建始
  @@ ("GengShi" :> <<"Geng2", "Shi">>)  \* 更始
  @@ ("JianHong" :> <<"Jian1", "Hong">>)  \* 建弘
  @@ ("LongFei" :> <<"Long2", "Fei">>)  \* 龍飛
  @@ ("JianHe" :> <<"Jian1", "He1">>)  \* 建和
  @@ ("HongChang" :> <<"Hong", "Chang2">>)  \* 弘昌
  @@ ("TaiShang" :> <<"tai", "Shang">>)  \* 太上
  @@ ("GengZi" :> <<"Geng1", "Zi">>)  \* 庚子
  @@ ("ShenXi" :> <<"Shen", "Xi2">>)  \* 神璽
  @@ ("TianXi" :> <<"Tian", "Xi2">>)  \* 天璽
  @@ ("XuanShi" :> <<"Xuan", "Shi">>)  \* 玄始
  @@ ("ChengPing" :> <<"Cheng2", "Ping">>)  \* 承平
  @@ ("LongSheng" :> <<"Long2", "Sheng2">>)  \* 龍昇
  @@ ("FengXiang" :> <<"Feng", "Xiang">>)  \* 鳳翔
  @@ ("ChangWu" :> <<"Chang2", "Wu">>)  \* 昌武
  @@ ("ZhenXing" :> <<"Zhen1", "Xing">>)  \* 真興
  @@ ("ChengGuang" :> <<"Cheng2", "Guang">>)  \* 承光
  @@ ("TaiPing" :> <<"tai", "Ping">>)  \* 太平

\* str::trim, trim_end_matches, strip_prefix, strip_suffix, contains, split_once
is_whitespace(c) == c = " "

RECURSIVE trim_start(_)
trim_start(s) ==
  IF s # <<>> /\ is_whitespace(Head(s)) THEN trim_start(Tail(s)) ELSE s

RECURSIVE trim_end(_)
trim_end(s) ==
  IF s # <<>> /\ is_whitespace(s[Len(s)]) THEN trim_end(SubSeq(s, 1, Len(s) - 1)) ELSE s

trim(s) == trim_end(trim_start(s))

RECURSIVE trim_end_matches(_, _)
trim_end_matches(s, c) ==
  IF s # <<>> /\ s[Len(s)] = c THEN trim_end_matches(SubSeq(s, 1, Len(s) - 1), c) ELSE s

strip_prefix(s, c) == IF s # <<>> /\ Head(s) = c THEN Some(Tail(s)) ELSE None

strip_suffix(s, suffix) ==
  IF Len(s) >= Len(suffix) /\ SubSeq(s, Len(s) - Len(suffix) + 1, Len(s)) = suffix
  THEN Some(SubSeq(s, 1, Len(s) - Len(suffix)))
  ELSE None

contains(s, c) == \E i \in 1..Len(s) : s[i] = c

split_once(s, c) ==
  LET found == first_index({i \in 1..Len(s) : s[i] = c})
  IN  IF IsSome(found)
      THEN Some(<<SubSeq(s, 1, Unwrap(found) - 1), SubSeq(s, Unwrap(found) + 1, Len(s))>>)
      ELSE None

\* char::is_ascii_digit and the value of a digit
AsciiDigits == <<"0", "1", "2", "3", "4", "5", "6", "7", "8", "9">>
is_ascii_digit(c) == \E d \in 1..10 : AsciiDigits[d] = c
digit_value(c) == (CHOOSE d \in 1..10 : AsciiDigits[d] = c) - 1

\* str::parse::<u8> and str::parse::<u16>: an optional + sign, then at least
\* one digit, every character a digit, and no overflow of the type.
RECURSIVE checked_digits(_, _, _)
checked_digits(acc, s, max) ==
  IF s = <<>> THEN Some(acc)
  ELSE IF ~is_ascii_digit(Head(s)) THEN None
  ELSE LET n == acc * 10 + digit_value(Head(s))
       IN  IF n > max THEN None ELSE checked_digits(n, Tail(s), max)

parse_unsigned(s, max) ==
  LET digits == IF s # <<>> /\ Head(s) = "+" THEN Tail(s) ELSE s
  IN  IF digits = <<>> THEN None ELSE checked_digits(0, digits, max)

parse_u8(s) == parse_unsigned(s, 255)
parse_u16(s) == parse_unsigned(s, 65535)

\* parse_ad_suffix
parse_ad_suffix(s) ==
  LET t == trim(s)
      stripped == IF IsSome(strip_suffix(t, <<"A", "D">>)) THEN strip_suffix(t, <<"A", "D">>)
                  ELSE strip_suffix(t, <<"a", "d">>)
  IN  IF IsSome(stripped) THEN parse_u16(trim(Unwrap(stripped))) ELSE None

\* A parse_cn_year that knows the single digits and 元 only.
parse_cn_year_single(s) ==
  IF s = <<"yuan">> THEN Some(1) ELSE IF Len(s) = 1 THEN cn_digit(s[1]) ELSE None

\* parse_cn_year
parse_cn_year(s) == parse_cn_number(s)

\* parse_era_year: the pair (era, year)
parse_era_year(raw) ==
  LET r == trim_end_matches(trim(raw), "nian")
      pure == parse_u8(r)
      idx == last_index({i \in 1..Len(r) : ~is_ascii_digit(r[i])})
      after == SubSeq(r, Unwrap(idx) + 1, Len(r))
      trailing == IF IsSome(idx) /\ after # <<>> THEN parse_u8(after) ELSE None
      suffix(n) == SubSeq(r, Len(r) - n + 1, Len(r))
      cn(n) == IF Len(r) <= n THEN None ELSE parse_cn_year(suffix(n))
      era(n) == SubSeq(r, 1, Len(r) - n)
  IN  IF IsSome(pure) THEN <<<<>>, pure>>
      ELSE IF IsSome(trailing) THEN <<SubSeq(r, 1, Unwrap(idx)), trailing>>
      ELSE IF IsSome(cn(3)) THEN <<era(3), cn(3)>>
      ELSE IF IsSome(cn(2)) THEN <<era(2), cn(2)>>
      ELSE IF IsSome(cn(1)) THEN <<era(1), cn(1)>>
      ELSE <<r, None>>

\* enum TimeQuery
Single(era, year) == [kind |-> "Single", era |-> era, year |-> year]
Range(era, year_from, year_to) ==
  [kind |-> "Range", era |-> era, year_from |-> year_from, year_to |-> year_to]
RegimeQuery(regime) == [kind |-> "Regime", regime |-> regime]
AdYear(year) == [kind |-> "AdYear", year |-> year]
AdRange(from, to) == [kind |-> "AdRange", from |-> from, to |-> to]

\* The dash the range branch splits on: - before — before ~
range_sep(r) ==
  IF contains(r, "-") THEN "-" ELSE IF contains(r, "emdash") THEN "emdash" ELSE "~"

\* A regime rule that never applies.
regime_prefix_ignored(r) == None

\* raw.strip_prefix('@')
regime_prefix(r) == strip_prefix(r, "@")

\* An era choice that always takes the right side.
range_era_right(era_from, era_to) == era_to

\* if era_from.is_empty() { era_to } else { era_from }
range_era(era_from, era_to) == IF era_from = <<>> THEN era_to ELSE era_from

\* parse_time_query
parse_time_query(raw) ==
  LET r == trim(raw)
      at == regime_prefix(r)
      split == IF IsSome(split_once(r, "-")) THEN split_once(r, "-")
               ELSE IF IsSome(split_once(r, "emdash")) THEN split_once(r, "emdash")
               ELSE split_once(r, "~")
      ad_from == parse_ad_suffix(trim(Unwrap(split)[1]))
      ad_to == parse_ad_suffix(trim(Unwrap(split)[2]))
      ad == parse_ad_suffix(r)
      parts == Unwrap(split_once(r, range_sep(r)))
      from == parse_era_year(parts[1])
      to == parse_era_year(parts[2])
  IN  IF IsSome(at) THEN RegimeQuery(Unwrap(at))
      ELSE IF IsSome(split) /\ IsSome(ad_from) /\ IsSome(ad_to)
           THEN AdRange(Unwrap(ad_from), Unwrap(ad_to))
      ELSE IF IsSome(ad) THEN AdYear(Unwrap(ad))
      ELSE IF (contains(r, "-") \/ contains(r, "emdash") \/ contains(r, "~"))
              /\ IsSome(from[2]) /\ IsSome(to[2])
           THEN Range(range_era(from[1], to[1]), Unwrap(from[2]), Unwrap(to[2]))
      ELSE LET single == parse_era_year(r) IN Single(single[1], single[2])

\* The numerals the time pattern of the extractor matches:
\* 元|[一二三四五六七八九十]{1,3}
TimeNumerals ==
  {<<"yuan">>} \cup UNION {[1..k -> {CnDigits[i] : i \in 1..9} \cup {"shi"}] : k \in 1..3}

\* parse_era_year applied to era + numeral + 年, for every era name of the
\* catalogue and every numeral the time pattern matches and parse_cn_number
\* accepts: the text of every time reference extract_times can emit.
EraYearString(era, numeral) == EraChars[era] \o numeral \o <<"nian">>

InitEraYear ==
  /\ call \in [fn : {"parse_era_year"}, era : EraNames,
               numeral : {n \in TimeNumerals : IsSome(parse_cn_number(n))}]
  /\ ret = None /\ pc = "call" /\ OtherIdle

Call_parse_era_year ==
  /\ pc = "call" /\ call.fn = "parse_era_year"
  /\ ret' = parse_era_year(EraYearString(call.era, call.numeral))
  /\ pc' = "ret"
  /\ UNCHANGED <<call, otherVars>>

SpecEraYear == InitEraYear /\ [][Call_parse_era_year]_vars

\* The query strings: an optional @, then up to MaxDashes + 1 sides separated
\* by dashes; and every era name of the catalogue alone.
MaxDashes == 2

QueryPrefixes == {<<>>, <<"@">>}
QueryDashes == {"-", "emdash", "~"}
QuerySides ==
  { <<"5", "A", "D">>,                               \* 5AD
    <<" ", "7", "a", "d">>,                           \* " 7ad"
    <<"7", "0", "0", "0", "0", "A", "D">>,            \* 70000AD
    EraChars["TaiHe"],                                \* 太和
    EraChars["TaiHe"] \o <<"3">>,                     \* 太和3
    EraChars["JianYuan"] \o <<"san", "nian">>,        \* 建元三年
    <<"3">>,                                          \* 3
    <<"liu", "nian">> }                               \* 六年

RECURSIVE DashedStrings(_)
DashedStrings(n) ==
  IF n = 0 THEN QuerySides
  ELSE LET shorter == DashedStrings(n - 1)
       IN  shorter \cup {q \o <<d>> \o s : q \in shorter, d \in QueryDashes, s \in QuerySides}

QueryStrings ==
  {p \o q : p \in QueryPrefixes, q \in DashedStrings(MaxDashes)}
  \cup {EraChars[e] : e \in EraNames}

InitTimeQuery ==
  /\ call \in [fn : {"parse_time_query"}, raw : QueryStrings]
  /\ ret = None /\ pc = "call" /\ OtherIdle

Call_parse_time_query ==
  /\ pc = "call" /\ call.fn = "parse_time_query"
  /\ ret' = parse_time_query(call.raw)
  /\ pc' = "ret"
  /\ UNCHANGED <<call, otherVars>>

SpecTimeQuery == InitTimeQuery /\ [][Call_parse_time_query]_vars

(***************************************************************************)
(* main.rs: run_locate.  Its inputs are the events read from events.json    *)
(* (high-confidence, then unstructured) and the parsed query; what it       *)
(* returns is the map person -> PersonLocation it prints, or nothing when    *)
(* no timed event matches the query.  A TimeQuery of this section carries   *)
(* the era as TimeRef does.                                                 *)
(***************************************************************************)

MaxLocateEvents == 3

\* const STALENESS_THRESHOLD_YEARS
STALENESS_THRESHOLD_YEARS == 30

\* Option::unwrap_or
unwrap_or(o, default) == IF IsSome(o) THEN Unwrap(o) ELSE default

\* time_sort_key
time_sort_key(t) == unwrap_or(exact_ad_year(t.regime, t.era, t.year), 0)

\* k >= *from && k <= *to
key_in_range(k, from, to) == k >= from /\ k <= to

\* time_matches_query
time_matches_query(t, parsed) ==
  CASE parsed.kind = "Single"  -> t.era = parsed.era /\ is_none_or(parsed.year, t.year)
    [] parsed.kind = "Range"   -> t.era = parsed.era /\ t.year >= parsed.year_from
                                   /\ t.year <= parsed.year_to
    [] parsed.kind = "Regime"  -> t.regime = parsed.regime
    [] parsed.kind = "AdYear"  -> time_sort_key(t) = parsed.year
    [] parsed.kind = "AdRange" -> key_in_range(time_sort_key(t), parsed.from, parsed.to)

\* An is_stale that drops a person last seen exactly 30 years before.
is_stale_inclusive(last_seen_ad, query_ad) ==
  (IF query_ad >= last_seen_ad THEN query_ad - last_seen_ad ELSE 0) >= STALENESS_THRESHOLD_YEARS

\* is_stale (u16::saturating_sub)
is_stale(last_seen_ad, query_ad) ==
  (IF query_ad >= last_seen_ad THEN query_ad - last_seen_ad ELSE 0) > STALENESS_THRESHOLD_YEARS

\* all_events.iter().filter(|e| e.time.is_some()), each event with its sort key
\* as the pair <<key, event>>
RECURSIVE keyed_timed_events(_)
keyed_timed_events(es) ==
  IF es = <<>> THEN <<>>
  ELSE (IF IsSome(Head(es).time)
        THEN << <<time_sort_key(Unwrap(Head(es).time)), Head(es)>> >> ELSE <<>>)
       \o keyed_timed_events(Tail(es))

\* timed_events.sort_by_key(..): the pairs in the order of the sorted events
timed_events_of(es) == sort_pairs(<<>>, keyed_timed_events(es))

\* Iterator::max
max_of(keys) == IF keys = {} THEN None ELSE Some(CHOOSE k \in keys : \A j \in keys : j <= k)

\* query_max_key: the greatest key of a timed event that matches the query
query_max_key_of(timed, parsed) ==
  max_of({timed[i][1] :
            i \in {i \in 1..Len(timed) : time_matches_query(Unwrap(timed[i][2].time), parsed)}})

\* struct LocRecord (as_of is the label built from regime, era, year and key)
LocRecord(place, role, t, key, context) ==
  [place |-> place, role |-> role, as_of |-> <<t.regime, t.era, t.year, key>>,
   ad_year |-> key, context |-> context]

\* The body of the walk for the event e of sort key `key`: the PersonState of
\* its person afterwards
person_state_after(state, e, key) ==
  LET t == Unwrap(e.time)
      person == person_name(e)
      ps == IF person \in DOMAIN state THEN state[person]
            ELSE [location |-> None, last_seen |-> key, dead_at |-> None]
      seen == [ps EXCEPT !.last_seen = key]
      has_structured_place == IsSome(structured_place(e))
      matched ==
        IF e.kind.type \in {"Appointment", "Promotion"} /\ IsSome(e.kind.place)
        THEN [seen EXCEPT !.location =
                Some(LocRecord(Unwrap(e.kind.place).name, Some(e.kind.new_title), t, key, e.context))]
        ELSE IF e.kind.type = "Battle" /\ IsSome(e.kind.target_place)
        THEN [seen EXCEPT !.location =
                Some(LocRecord(Unwrap(e.kind.target_place).name, None, t, key, e.context))]
        ELSE IF e.kind.type = "Death" THEN [seen EXCEPT !.dead_at = Some(key)]
        ELSE seen
  IN  IF ~has_structured_place /\ e.locations # <<>>
      THEN [matched EXCEPT !.location =
              Some(LocRecord(e.locations[1].name, e.locations[1].role_suffix, t, key, e.context))]
      ELSE matched

\* A walk that never stops at the cutoff.
beyond_cutoff_never(key, cutoff) == FALSE

\* if key > query_max_key { break; }
beyond_cutoff(key, cutoff) == key > cutoff

\* for e in &timed_events { .. }
RECURSIVE walk(_, _, _)
walk(state, timed, cutoff) ==
  IF timed = <<>> THEN state
  ELSE IF beyond_cutoff(Head(timed)[1], cutoff) THEN state
  ELSE LET e == Head(timed)[2]
           after == person_state_after(state, e, Head(timed)[1])
       IN  walk([p \in DOMAIN state \cup {person_name(e)} |->
                   IF p = person_name(e) THEN after ELSE state[p]],
                Tail(timed), cutoff)

\* struct PersonLocation
PersonLocation(loc, status) ==
  [location |-> loc.place, role |-> loc.role, as_of |-> loc.as_of, as_of_ad |-> loc.ad_year,
   status |-> status, context |-> loc.context]

\* for (person, ps) in &state { .. result.insert(..) }
locate_result(state, p_freq, cutoff) ==
  LET emitted == {p \in DOMAIN state :
                    /\ ~(freq_get(p_freq, p) < 2)
                    /\ ~(IsSome(state[p].dead_at) /\ Unwrap(state[p].dead_at) <= cutoff)
                    /\ IsSome(state[p].location)
                    /\ ~is_stale(state[p].last_seen, cutoff)}
  IN  [p \in emitted |->
         PersonLocation(Unwrap(state[p].location),
                        IF Unwrap(state[p].location).ad_year = cutoff
                        THEN "current" ELSE "last_known")]

\* run_locate from `let query_max_key = match query_max_key { .. }` on
locate_up_to(p_freq, timed, cutoff) ==
  IF cutoff = None THEN None
  ELSE Some(locate_result(walk(<<>>, timed, Unwrap(cutoff)), p_freq, Unwrap(cutoff)))

\* run_locate from the sorted timed events on
locate_timed(p_freq, timed, parsed) ==
  locate_up_to(p_freq, timed, query_max_key_of(timed, parsed))

\* run_locate
run_locate(es, parsed) ==
  locate_timed(count_persons(<<>>, es), timed_events_of(es), parsed)

\* The events of events.json: 王進 and 劉裕 under 北魏, at 太和元年 (477), 太和二年
\* (478) and 永平元年 (508), or untimed.
LocateTime(era, year) ==
  Some([era |-> era, regime |-> "BeiWei", year |-> year, byte_offset |-> 0])

TimedEvent(kind, locations, time) == [Event(kind, locations) EXCEPT !.time = time]

LocateEvents ==
  { TimedEvent(Appointment("WangJin", Some(PlaceRef("JingZhou"))), <<>>, LocateTime("TaiHe", 1)),
    TimedEvent(Appointment("WangJin", Some(PlaceRef("JingZhou"))), <<>>, LocateTime("TaiHe", 2)),
    TimedEvent(Accession("WangJin"), <<PlaceRef("YiZhou")>>, LocateTime("YongPing", 1)),
    TimedEvent(Accession("WangJin"), <<>>, LocateTime("YongPing", 1)),
    TimedEvent(Death("WangJin"), <<>>, LocateTime("TaiHe", 2)),
    TimedEvent(Death("WangJin"), <<>>, LocateTime("YongPing", 1)),
    TimedEvent(Accession("WangJin"), <<>>, None),
    TimedEvent(Battle("LiuYu", Some(PlaceRef("YiZhou"))), <<PlaceRef("JingZhou")>>,
               LocateTime("YongPing", 1)),
    TimedEvent(Promotion("LiuYu", Some(PlaceRef("JingZhou"))), <<>>, LocateTime("TaiHe", 1)) }

LocateQueries ==
  { [kind |-> "Single", era |-> "TaiHe", year |-> None],
    [kind |-> "Single", era |-> "YongPing", year |-> Some(1)],
    [kind |-> "Range", era |-> "TaiHe", year_from |-> 1, year_to |-> 1],
    [kind |-> "Regime", regime |-> "BeiWei"],
    [kind |-> "AdYear", year |-> 478],
    [kind |-> "AdRange", from |-> 477, to |-> 508] }

InitLocate ==
  /\ call \in [fn : {"run_locate"}, all_events : SeqsUpTo(LocateEvents, MaxLocateEvents),
               parsed : LocateQueries]
  /\ ret = None /\ pc = "call" /\ OtherIdle

Call_run_locate ==
  /\ pc = "call" /\ call.fn = "run_locate"
  /\ ret' = run_locate(call.all_events, call.parsed)
  /\ pc' = "ret"
  /\ UNCHANGED <<call, otherVars>>

SpecLocate == InitLocate /\ [][Call_run_locate]_vars

(***************************************************************************)
(* scanner.rs: scan_corpus walks root/book/section/juan/file and keeps the *)
(* biography files.  Names are sequences of character tokens: 目 "Mu4",    *)
(* 录 "Lu4s", 史 "Shi3", 論 "Lun4", 評 "Ping2", 贊 "Zan4", 序 "Xu4",         *)
(* 注 "Zhu4", 正 "Zheng4", 文 "Wen2", 附 "Fu4", 錄 "Lu4", 年 "nian",         *)
(* 餘 "Yu2", 褚 "Chu3", 淵 "Yuan1", 永 "Yong", 明 "Ming", 五 "wu", 三 "san", *)
(* 本 "Ben3", 紀 "Ji4s", 列 "Lie4", 傳 "Zhuan4", 載 "Zai4", 記 "Ji4y",       *)
(* 志 "Zhi4".                                                              *)
(***************************************************************************)
MaxFiles == 2

MuLu == <<"Mu4", "Lu4s">>

skip_names ==
  << MuLu, <<"Shi3", "Lun4">>, <<"Shi3", "Ping2">>, <<"Lun4">>, <<"Ping2">>,
     <<"Zan4">>, <<"Ping2", "Zan4">>, <<"Xu4">>, <<"Zhu4">>, <<"Zheng4", "Wen2">>,
     <<"Fu4", "Lu4">> >>

\* str::contains and str::ends_with for a pattern of several characters
contains_str(s, pat) ==
  \E i \in 1..(Len(s) + 1) :
    i + Len(pat) - 1 <= Len(s) /\ SubSeq(s, i, i + Len(pat) - 1) = pat

ends_with(s, suffix) == IsSome(strip_suffix(s, suffix))

\* Book::from_dir_name: the six titles; the directory 魏書 is written "WeiShu"
book_from_dir_name(name) == IF name \in Books THEN Some(name) ELSE None

section_from_dir_name(name) ==
  IF contains_str(name, <<"Ben3", "Ji4s">>) \/ contains_str(name, <<"Ji4s">>) THEN "BenJi"
  ELSE IF contains_str(name, <<"Lie4", "Zhuan4">>) THEN "LieZhuan"
  ELSE IF contains_str(name, <<"Zai4", "Ji4y">>) THEN "ZaiJi"
  ELSE IF contains_str(name, <<"Zhi4">>) THEN "Zhi"
  ELSE "Other"

strip_numeric_prefix_never(s) == s

strip_numeric_prefix(s) ==
  LET parts == split_once(s, "_")
  IN  IF IsSome(parts) /\ \A i \in 1..Len(Unwrap(parts)[1]) : is_ascii_digit(Unwrap(parts)[1][i])
      THEN Unwrap(parts)[2]
      ELSE s

is_year_file(name) == ends_with(name, <<"nian">>) \/ ends_with(name, <<"nian", "Yu2">>)

\* the test of one file of a juan directory: TRUE when the file is pushed
is_biography_file(section, clean_stem, extension) ==
  /\ extension = "txt"
  /\ (\E i \in 1..Len(skip_names) : skip_names[i] = clean_stem)
       => (clean_stem = MuLu /\ section \in {"BenJi", "ZaiJi"})
  /\ ~is_year_file(clean_stem)

BiographyFile(book, section, f) ==
  [source |-> [book |-> book, section |-> section, juan |-> f.juan, file_path |-> f], path |-> f]

\* the nested loops over the listing, in listing order; a directory that is
\* not one of the six books is passed over
RECURSIVE scan_entries(_, _)
scan_entries(results, fs) ==
  IF fs = <<>> THEN results
  ELSE scan_entries(
         IF /\ IsSome(book_from_dir_name(Head(fs).book_dir))
            /\ is_biography_file(section_from_dir_name(Head(fs).section_dir),
                                 strip_numeric_prefix(Head(fs).stem), Head(fs).extension)
         THEN Append(results, BiographyFile(Unwrap(book_from_dir_name(Head(fs).book_dir)),
                                            section_from_dir_name(Head(fs).section_dir),
                                            Head(fs)))
         ELSE results,
         Tail(fs))

scan_corpus(fs) == scan_entries(<<>>, fs)

\* the files of a small corpus
CorpusFile(b, sec, stem, ext) ==
  [book_dir |-> b, section_dir |-> sec, juan |-> "juan1", stem |-> stem, extension |-> ext]

DirBenJi    == <<"Ben3", "Ji4s">>
DirLieZhuan == <<"Lie4", "Zhuan4">>
DirZaiJi    == <<"Zai4", "Ji4y">>
NumPrefix   == <<"0", "2", "_">>
ChuYuan     == <<"Chu3", "Yuan1">>

CorpusFiles ==
     {CorpusFile("JinShu", sec, p \o MuLu, "txt") :
        sec \in {DirBenJi, DirLieZhuan, DirZaiJi}, p \in {<<>>, NumPrefix}}
  \cup {CorpusFile("JinShu", DirLieZhuan, NumPrefix \o skip_names[i], "txt") :
        i \in 2..Len(skip_names)}
  \cup {CorpusFile("JinShu", sec, NumPrefix \o y, "txt") :
        sec \in {DirBenJi, DirLieZhuan},
        y \in {<<"Yong", "Ming", "wu", "nian">>, <<"san", "nian", "Yu2">>}}
  \cup {CorpusFile("JinShu", DirLieZhuan, p \o ChuYuan, "txt") : p \in {<<>>, NumPrefix}}
  \cup { CorpusFile("JinShu", DirBenJi, <<"Lun4">>, "txt"),
         CorpusFile("JinShu", DirZaiJi, NumPrefix \o ChuYuan, "txt"),
         CorpusFile("JinShu", DirLieZhuan, NumPrefix \o ChuYuan, "md"),
         CorpusFile("notes", DirLieZhuan, NumPrefix \o ChuYuan, "txt"),
         CorpusFile("JinShu", DirLieZhuan, <<"_">> \o MuLu, "txt"),
         CorpusFile("JinShu", DirLieZhuan, <<"a", "_">> \o MuLu, "txt"),
         CorpusFile("JinShu", DirLieZhuan, <<"0", "2">> \o ChuYuan, "txt"),
         CorpusFile("JinShu", <<"Zhi4">>, NumPrefix \o ChuYuan, "txt"),
         CorpusFile("JinShu", <<"Fu4", "Lu4">>, NumPrefix \o ChuYuan, "txt") }

InitScanner ==
  /\ call \in [fn : {"scan_corpus"}, files : SeqsUpTo(CorpusFiles, MaxFiles)]
  /\ ret = None /\ pc = "call" /\ OtherIdle

Call_scan_corpus ==
  /\ pc = "call" /\ call.fn = "scan_corpus"
  /\ ret' = scan_corpus(call.files)
  /\ pc' = "ret"
  /\ UNCHANGED <<call, otherVars>>

SpecScanner == InitScanner /\ [][Call_scan_corpus]_vars

(***************************************************************************)
(* parser.rs: parse_biography.  The header templates are regular           *)
(* expressions that are not modelled: a line of the file is given by what  *)
(* it matches.  "blank" is empty after trim; "text" matches no template;   *)
(* "emperor" matches an Emperor template (高祖武皇帝諱衍，字叔達);           *)
(* "official" an Official template (褚淵字彥回，河南陽翟人也) and, being     *)
(* laxer, the Ruler templates; "both" an Emperor and an Official template  *)
(* (廢帝諱昱，字德融，河內人); "ruler" the Ruler templates only            *)
(* (苻堅，字永固，雄之子也).                                                 *)
(***************************************************************************)
MaxPad == 5
LINES_TAKEN == 10

Sections == {"BenJi", "LieZhuan", "ZaiJi", "Zhi", "Other"}

\* RE_EMPEROR_TEMPLE, RE_EMPEROR_SHORT, RE_DEPOSED
emperor_matches(line) == line \in {"emperor", "both"}
\* RE_OFFICIAL, RE_OFFICIAL_NO_COURTESY
official_matches(line) == line \in {"official", "both"}
\* RE_RULER_WITH_COURTESY, RE_RULER_GIVEN_ONLY, RE_RULER_NO_COURTESY
ruler_matches(line) == line \in {"ruler", "official", "both"}

\* struct Person: the kind of the template that matched and the line of the
\* file it matched on
Person(kind, line_no, source) == [kind |-> kind, header_line |-> line_no, source |-> source]

\* content.lines().take(10).map(|l| l.trim()).filter(|l| !l.is_empty()):
\* the kept lines with their line numbers
RECURSIVE non_empty_lines(_, _, _)
non_empty_lines(kept, content, i) ==
  IF i > Len(content) THEN kept
  ELSE non_empty_lines(IF content[i] # "blank" THEN Append(kept, <<i, content[i]>>) ELSE kept,
                       content, i + 1)

take(content, n) == SubSeq(content, 1, IF Len(content) < n THEN Len(content) ELSE n)

\* A lines_to_try that drops the blank lines before it takes ten.
lines_to_try_filter_first(content) == take(non_empty_lines(<<>>, content, 1), LINES_TAKEN)

lines_to_try(content) == non_empty_lines(<<>>, take(content, LINES_TAKEN), 1)

try_parse_emperor(line, source) ==
  IF emperor_matches(line[2]) THEN Some(Person("Emperor", line[1], source)) ELSE None

try_parse_official(line, source) ==
  IF official_matches(line[2]) THEN Some(Person("Official", line[1], source)) ELSE None

try_parse_ruler(line, source) ==
  IF ruler_matches(line[2]) THEN Some(Person("Ruler", line[1], source)) ELSE None

\* the body of the first loop of parse_biography for one line
try_strict(line, source) ==
  IF source.section \in {"BenJi", "ZaiJi"} /\ IsSome(try_parse_emperor(line, source))
  THEN try_parse_emperor(line, source)
  ELSE IF IsSome(try_parse_official(line, source))
  THEN try_parse_official(line, source)
  ELSE IF source.section # "BenJi"
  THEN try_parse_emperor(line, source)
  ELSE None

RECURSIVE first_strict(_, _)
first_strict(lines, source) ==
  IF lines = <<>> THEN None
  ELSE IF IsSome(try_strict(Head(lines), source)) THEN try_strict(Head(lines), source)
  ELSE first_strict(Tail(lines), source)

RECURSIVE first_ruler(_, _)
first_ruler(lines, source) ==
  IF lines = <<>> THEN None
  ELSE IF IsSome(try_parse_ruler(Head(lines), source)) THEN try_parse_ruler(Head(lines), source)
  ELSE first_ruler(Tail(lines), source)

parse_lines(lines, source) ==
  IF lines = <<>> THEN None
  ELSE IF IsSome(first_strict(lines, source)) THEN first_strict(lines, source)
  ELSE IF source.section = "ZaiJi" THEN first_ruler(lines, source)
  ELSE None

\* parse_biography; bio.read is what fs::read_to_string(&bio.path) gives
parse_biography(bio) ==
  IF ~IsSome(bio.read) THEN None
  ELSE parse_lines(lines_to_try(Unwrap(bio.read)), bio.source)

\* The files parsed: some blank and some text lines in either order, a first
\* candidate header and possibly a second line.
RECURSIVE Repeat(_, _)
Repeat(x, n) == IF n = 0 THEN <<>> ELSE <<x>> \o Repeat(x, n - 1)

HeaderLines == {"text", "emperor", "official", "both", "ruler"}

ParserContents ==
  {pad \o <<h>> \o t :
     pad \in {Repeat("blank", a) \o Repeat("text", b) : a, b \in 0..MaxPad}
             \cup {Repeat("text", b) \o Repeat("blank", a) : a, b \in 0..MaxPad},
     h \in HeaderLines,
     t \in {<<>>, <<"emperor">>, <<"official">>, <<"ruler">>}}
  \cup {<<>>, <<"blank">>}

ParsedFile(section, read) ==
  [source |-> [book |-> "JinShu", section |-> section, juan |-> "juan1"],
   path |-> "01_a.txt", read |-> read]

InitParser ==
  /\ call \in [fn : {"parse_biography"},
               bio : {ParsedFile(s, r) : s \in Sections,
                                         r \in {None} \cup {Some(c) : c \in ParserContents}}]
  /\ ret = None /\ pc = "call" /\ OtherIdle

Call_parse_biography ==
  /\ pc = "call" /\ call.fn = "parse_biography"
  /\ ret' = parse_biography(call.bio)
  /\ pc' = "ret"
  /\ UNCHANGED <<call, otherVars>>

SpecParser == InitParser /\ [][Call_parse_biography]_vars

(***************************************************************************)
(* surname.rs: split_name.  A name is a sequence of character tokens; the  *)
(* compound surnames in source order are                                   *)
(* 司馬 SiMa 歐陽 OuYang 諸葛 ZhuGe 長孫 ZhangSun 令狐 LingHu 慕容 MuRong              *)
(* 拓跋 TuoBa 宇文 YuWen 獨孤 DuGu 赫連 HeLian 呼延 Hu1Yan 鮮于 XianYu2                *)
(* 段幹 DuanGan 公孫 GongSun 東方 DongFang 南宮 NanGong1 西門 XiMen 上官 ShangGuan     *)
(* 夏侯 XiaHou 皇甫 HuangFu 尉遲 Yu4Chi 澹臺 TanTai 公冶 GongYe 宗政 ZongZheng         *)
(* 濮陽 PuYang 淳于 ChunYu2 單于 ChanYu2 太叔 Tai4Shu 申屠 ShenTu1 仲孫 ZhongSun       *)
(* 軒轅 XuanYuan 鍾離 Zhong1Li 閭丘 LvQiu 東郭 DongGuo 南門 NanMen 壤駟 RangSi4        *)
(* 禿髮 TuFa 宿勤 SuQin                                                        *)
(* and 褚 is "Chu3", 淵 "Yuan1".                                           *)
(***************************************************************************)
MaxNameLen == 3

COMPOUND_SURNAMES ==
  << <<"Si", "Ma">>, <<"Ou", "Yang">>, <<"Zhu", "Ge">>, <<"Zhang", "Sun">>,
     <<"Ling", "Hu">>, <<"Mu", "Rong">>, <<"Tuo", "Ba">>, <<"Yu", "Wen">>,
     <<"Du", "Gu">>, <<"He", "Lian">>, <<"Hu1", "Yan">>, <<"Xian", "Yu2">>,
     <<"Duan", "Gan">>, <<"Gong", "Sun">>, <<"Dong", "Fang">>, <<"Nan", "Gong1">>,
     <<"Xi", "Men">>, <<"Shang", "Guan">>, <<"Xia", "Hou">>, <<"Huang", "Fu">>,
     <<"Yu4", "Chi">>, <<"Tan", "Tai">>, <<"Gong", "Ye">>, <<"Zong", "Zheng">>,
     <<"Pu", "Yang">>, <<"Chun", "Yu2">>, <<"Chan", "Yu2">>, <<"Tai4", "Shu">>,
     <<"Shen", "Tu1">>, <<"Zhong", "Sun">>, <<"Xuan", "Yuan">>, <<"Zhong1", "Li">>,
     <<"Lv", "Qiu">>, <<"Dong", "Guo">>, <<"Nan", "Men">>, <<"Rang", "Si4">>,
     <<"Tu", "Fa">>, <<"Su", "Qin">> >>

\* str::starts_with
starts_with(s, prefix) == Len(s) >= Len(prefix) /\ SubSeq(s, 1, Len(prefix)) = prefix

\* A split_name that never looks at the compound surnames.
split_name_first_char(full_name) ==
  IF Len(full_name) < 2 THEN None
  ELSE Some(<<SubSeq(full_name, 1, 1), SubSeq(full_name, 2, Len(full_name))>>)

split_name(full_name) ==
  IF Len(full_name) < 2 THEN None
  ELSE LET cs == first_index({i \in 1..Len(COMPOUND_SURNAMES) :
                    /\ starts_with(full_name, COMPOUND_SURNAMES[i])
                    /\ Len(full_name) > Len(COMPOUND_SURNAMES[i])})
       IN  IF IsSome(cs)
           THEN Some(<<COMPOUND_SURNAMES[Unwrap(cs)],
                       SubSeq(full_name, Len(COMPOUND_SURNAMES[Unwrap(cs)]) + 1, Len(full_name))>>)
           ELSE Some(<<SubSeq(full_name, 1, 1), SubSeq(full_name, 2, Len(full_name))>>)

\* The characters of the names split: 司 馬 禿 髮 褚 淵
NameChars == {"Si", "Ma", "Tu", "Fa", "Chu3", "Yuan1"}

InitSplit ==
  /\ call \in [fn : {"split_name"},
               full_name : UNION {[1..k -> NameChars] : k \in 0..MaxNameLen}]
  /\ ret = None /\ pc = "call" /\ OtherIdle

Call_split_name ==
  /\ pc = "call" /\ call.fn = "split_name"
  /\ ret' = split_name(call.full_name)
  /\ pc' = "ret"
  /\ UNCHANGED <<call, otherVars>>

SpecSplit == InitSplit /\ [][Call_split_name]_vars

(***************************************************************************)
(* event.rs: parse_cn_month.  正 is "zheng", 臘 "la", 閏 "run".            *)
(***************************************************************************)
MaxMonthLen == 3

\* A parse_cn_month without the range check.
parse_cn_month_any_number(s) ==
  IF s = <<"zheng">> \/ s = <<"yi">> THEN Some(1)
  ELSE IF s = <<"la">> THEN Some(12)
  ELSE LET stripped == unwrap_or(strip_prefix(s, "run"), s)
           base == IF stripped = <<"zheng">> THEN <<"yi">> ELSE stripped
       IN  parse_cn_number(base)

parse_cn_month(s) ==
  IF s = <<"zheng">> \/ s = <<"yi">> THEN Some(1)
  ELSE IF s = <<"la">> THEN Some(12)
  ELSE LET stripped == unwrap_or(strip_prefix(s, "run"), s)
           base == IF stripped = <<"zheng">> THEN <<"yi">> ELSE stripped
           m == parse_cn_number(base)
       IN  IF IsSome(m) /\ 1 <= Unwrap(m) /\ Unwrap(m) <= 12 THEN m ELSE None

\* The characters of the month strings parsed: 正 臘 閏 一 二 三 九 十 元
MonthChars == {"zheng", "la", "run", "yi", "er", "san", "jiu", "shi", "yuan"}

InitMonth ==
  /\ call \in [fn : {"parse_cn_month"}, s : UNION {[1..k -> MonthChars] : k \in 0..MaxMonthLen}]
  /\ ret = None /\ pc = "call" /\ OtherIdle

Call_parse_cn_month ==
  /\ pc = "call" /\ call.fn = "parse_cn_month"
  /\ ret' = parse_cn_month(call.s)
  /\ pc' = "ret"
  /\ UNCHANGED <<call, otherVars>>

SpecMonth == InitMonth /\ [][Call_parse_cn_month]_vars

(***************************************************************************)
(* event.rs: extract_context.  A text is a sequence of characters: "nl" is *)
(* the line feed and "a" an ASCII letter (1 byte each), "zhong" a CJK      *)
(* character (3 bytes).                                                    *)
(***************************************************************************)
MaxTextLen == 4
CONTEXT_RADIUS == 30

\* char::len_utf8
len_utf8(ch) == IF ch = "zhong" THEN 3 ELSE 1

\* the byte offset of the character at index i (from 1)
RECURSIVE byte_offset_of(_, _)
byte_offset_of(chars, i) ==
  IF i <= 1 THEN 0 ELSE byte_offset_of(chars, i - 1) + len_utf8(chars[i - 1])

\* the loop of extract_context that turns the byte offset into a character
\* index (from 0); char_idx stays 0 when the loop ends without a break
RECURSIVE char_idx_from(_, _, _, _)
char_idx_from(chars, byte_offset, i, byte_pos) ==
  IF i >= Len(chars) THEN 0
  ELSE IF byte_pos >= byte_offset THEN i
  ELSE char_idx_from(chars, byte_offset, i + 1, byte_pos + len_utf8(chars[i + 1]))

saturating_sub(a, b) == IF a >= b THEN a - b ELSE 0
min(a, b) == IF a <= b THEN a ELSE b

\* str::lines: the pieces between line feeds, without a last empty piece
RECURSIVE lines_from(_, _, _)
lines_from(done, current, rest) ==
  IF rest = <<>> THEN (IF current = <<>> THEN done ELSE Append(done, current))
  ELSE IF Head(rest) = "nl" THEN lines_from(Append(done, current), <<>>, Tail(rest))
  ELSE lines_from(done, Append(current, Head(rest)), Tail(rest))

lines(s) == lines_from(<<>>, <<>>, s)

\* window.lines().find(|l| !l.is_empty()).unwrap_or(&window)
first_line_of(ls, window) ==
  LET found == first_index({i \in 1..Len(ls) : ls[i] # <<>>})
  IN  IF IsSome(found) THEN ls[Unwrap(found)] ELSE window

window_of(chars, char_idx, char_radius) ==
  SubSeq(chars, saturating_sub(char_idx, char_radius) + 1,
         min(char_idx + char_radius, Len(chars)))

extract_context_at(chars, char_idx, char_radius) ==
  first_line_of(lines(window_of(chars, char_idx, char_radius)),
                window_of(chars, char_idx, char_radius))

extract_context(text, byte_offset, char_radius) ==
  extract_context_at(text, char_idx_from(text, byte_offset, 0, 0), char_radius)

\* The texts and the match positions: every short text, and long lines with
\* the match about char_radius characters from either end.
ContextChars == {"nl", "a", "zhong"}

LongTexts ==
  {Repeat("a", p) \o <<"zhong">> \o Repeat("a", q) :
     p, q \in {0, CONTEXT_RADIUS - 1, CONTEXT_RADIUS, CONTEXT_RADIUS + 1}}

ContextTexts == UNION {[1..k -> ContextChars] : k \in 1..MaxTextLen} \cup LongTexts

\* scan_file calls extract_context(content, full.start(), 30) with the start of a
\* match, which is a character of the text other than a line feed
InitContext ==
  /\ call \in {[fn |-> "extract_context", text |-> t, match_start |-> m] :
                 t \in ContextTexts, m \in 1..(CONTEXT_RADIUS + 2)}
  /\ call.match_start <= Len(call.text)
  /\ call.text[call.match_start] # "nl"
  /\ ret = None /\ pc = "call" /\ OtherIdle

Call_extract_context ==
  /\ pc = "call" /\ call.fn = "extract_context"
  /\ ret' = extract_context(call.text, byte_offset_of(call.text, call.match_start), CONTEXT_RADIUS)
  /\ pc' = "ret"
  /\ UNCHANGED <<call, otherVars>>

SpecContext == InitContext /\ [][Call_extract_context]_vars

(***************************************************************************)
(* regime.rs: build_era_regex, and event.rs: EventScanner::new and         *)
(* extract_times with the eras the time pattern can capture.  The pattern  *)
(* ({era_re})(元|[一二三四五六七八九十]{1,3})年 is kept as the sequence of    *)
(* its era alternatives; a match of it in the content is given by where it *)
(* starts, the era and the numeral it captured and the month text that     *)
(* re_month_day captured within 15 bytes after it, if any.                 *)
(***************************************************************************)
MaxTimeMatches == 2

\* b.chars().count() of an era name
chars_count(name) == Len(EraChars[name])

era_names == [i \in 1..Len(ERA_NAMES) |-> ERA_NAMES[i].name]

\* names.sort_by_key(|b| Reverse(b.chars().count())): the sort is stable, so
\* its result is the names of the greatest key in their original order, then
\* those of the next key, and so on down to the key 0
RECURSIVE sorted_from_key(_, _)
sorted_from_key(names, k) ==
  IF k < 0 THEN <<>>
  ELSE SelectSeq(names, LAMBDA n : chars_count(n) = k) \o sorted_from_key(names, k - 1)

sort_by_length_desc(names) ==
  IF names = <<>> THEN <<>>
  ELSE LET keys == {chars_count(names[i]) : i \in 1..Len(names)}
       IN  sorted_from_key(names, CHOOSE k \in keys : \A m \in keys : m <= k)

\* Vec::dedup: an element equal to the one before it is removed
dedup(v) ==
  LET kept == {i \in 1..Len(v) : i = 1 \/ v[i] # v[i - 1]}
  IN  [p \in 1..Cardinality(kept) |->
         v[CHOOSE i \in kept : Cardinality({j \in kept : j <= i}) = p]]

\* build_era_regex: the alternatives of (?:a|b|...), in order
build_era_regex == dedup(sort_by_length_desc(era_names))

\* A TimeRef built with the fallback regime whatever resolve_era returns.
time_regime_default(era, b) == default_regime(b)

\* regime::resolve_era(era, book).unwrap_or_else(|| regime::default_regime(book))
time_regime(era, b) == unwrap_or(resolve_era(era, b), default_regime(b))

TimeRef(m, year, b) ==
  [era |-> m.era, regime |-> as_chinese(time_regime(m.era, b)), year |-> year,
   month |-> IF IsSome(m.month) THEN parse_cn_month(Unwrap(m.month)) ELSE None,
   day_ganzhi |-> None, raw |-> EraYearString(m.era, m.numeral), byte_offset |-> m.start]

\* extract_times over the matches of re_time, in the order captures_iter
\* yields them; a text whose era is not an alternative of the pattern is no match
RECURSIVE extract_times_of(_, _, _)
extract_times_of(era_re, matches, b) ==
  IF matches = <<>> THEN <<>>
  ELSE LET m == Head(matches)
       IN  (IF (\E i \in 1..Len(era_re) : era_re[i] = m.era) /\ IsSome(parse_cn_number(m.numeral))
            THEN << <<m.start, TimeRef(m, Unwrap(parse_cn_number(m.numeral)), b)>> >>
            ELSE <<>>)
           \o extract_times_of(era_re, Tail(matches), b)

\* The matches scanned: every era with a few numerals, one era with every
\* numeral the pattern matches, a text with an era outside the catalogue, and
\* files with several matches.
TimeMatch(start, era, numeral, month) ==
  [start |-> start, era |-> era, numeral |-> numeral, month |-> month]

FewNumerals == {<<"yuan">>, <<"shi">>, <<"jiu", "shi", "jiu">>, <<"shi", "shi">>}
FewMonths == {None, Some(<<"run", "san">>), Some(<<"shi", "san">>)}

SingleMatches ==
  {<<TimeMatch(0, e, n, None)>> : e \in EraNames \cup {UnknownName}, n \in FewNumerals}
  \cup {<<TimeMatch(0, "TaiHe", n, None)>> : n \in TimeNumerals}

RECURSIVE MatchSeqs(_)
MatchSeqs(n) ==
  IF n = 0 THEN {<<>>}
  ELSE MatchSeqs(n - 1) \cup
       {Append(q, TimeMatch(4 * Len(q), e, <<"san">>, mo)) :
          q \in {q \in MatchSeqs(n - 1) : Len(q) = n - 1},
          e \in {"TaiHe", "YongXing", "JianWu"}, mo \in FewMonths}

(***************************************************************************)
(* intext.rs: the false-positive name filter, and event.rs: scan_file with  *)
(* the persons its patterns capture.  A name is a sequence of characters,   *)
(* each written U+code point (王 is "U738B", 之 "U4E4B").                   *)
(***************************************************************************)
MaxFileMatches == 1

\* const BLACKLIST
BLACKLIST ==
  << <<"U5DE6", "U53F3">>, <<"U5DE6", "U4E1E">>, <<"U53F3", "U4E1E">>,  \* 左右 左丞 右丞
     <<"U5DE6", "U66F9">>, <<"U53F3", "U66F9">>, <<"U5DE6", "U50D5", "U5C04">>,  \* 左曹 右曹 左僕射
     <<"U53F3", "U50D5", "U5C04">>, <<"U5DE6", "U9577", "U53F2">>, <<"U53F3", "U9577", "U53F2">>,  \* 右僕射 左長史 右長史
     <<"U5DE6", "U897F", "U5C6C">>, <<"U5DE6", "U897F", "U63BE">>, <<"U5DE6", "U6C11", "U90CE">>,  \* 左西屬 左西掾 左民郎
     <<"U5DE6", "U6C11", "U5C1A">>, <<"U9EC3", "U9580", "U4F8D">>, <<"U9EC3", "U9580", "U90CE">>,  \* 左民尚 黃門侍 黃門郎
     <<"U90FD", "U5B98", "U90CE">>, <<"U91D1", "U90E8", "U90CE">>, <<"U5009", "U90E8", "U90CE">>,  \* 都官郎 金部郎 倉部郎
     <<"U7960", "U90E8", "U90CE">>, <<"U6BBF", "U4E2D", "U90CE">>, <<"U4E3B", "U5BA2", "U90CE">>,  \* 祠部郎 殿中郎 主客郎
     <<"U5EA6", "U652F", "U90CE">>, <<"U6C5F", "U5DDE", "U8AF8">>, <<"U834A", "U5DDE", "U8AF8">>,  \* 度支郎 江州諸 荊州諸
     <<"U5F90", "U5DDE", "U8AF8">>, <<"U63DA", "U5DDE", "U8AF8">>, <<"U8C6B", "U5DDE", "U8AF8">>,  \* 徐州諸 揚州諸 豫州諸
     <<"U9752", "U5DDE", "U8AF8">>, <<"U834A", "U6E58", "U96CD">>, <<"U96CD", "U6881", "U5357">>,  \* 青州諸 荊湘雍 雍梁南
     <<"U5F90", "U5157", "U9752">>, <<"U63DA", "U5F90", "U5157">>, <<"U96CD", "U79E6", "U6DBC">>,  \* 徐兗青 揚徐兗 雍秦涼
     <<"U5DE6", "U6C0F">>, <<"U5DE6", "U50B3">> >>  \* 左氏 左傳

\* titles.rs: TITLE_SUFFIXES and STANDALONE_TITLES
TITLE_SUFFIXES ==
  << <<"U5C07", "U8ECD">>, <<"U6821", "U5C09">>, <<"U90FD", "U5C09">>, <<"U8B77", "U8ECD">>,  \* 將軍 校尉 都尉 護軍
     <<"U53F8", "U99AC">>, <<"U53C3", "U8ECD">>, <<"U523A", "U53F2">>, <<"U592A", "U5B88">>,  \* 司馬 參軍 刺史 太守
     <<"U5167", "U53F2">>, <<"U9577", "U53F2">>, <<"U5225", "U99D5">>, <<"U5F9E", "U4E8B">>,  \* 內史 長史 別駕 從事
     <<"U4E3B", "U7C3F">>, <<"U529F", "U66F9">>, <<"U5C1A", "U66F8">>, <<"U4F8D", "U90CE">>,  \* 主簿 功曹 尚書 侍郎
     <<"U4E2D", "U90CE">>, <<"U50D5", "U5C04">>, <<"U5E38", "U4F8D">>, <<"U7D66", "U4E8B">>,  \* 中郎 僕射 常侍 給事
     <<"U4EE4", "U53F2">>, <<"U796D", "U9152">>, <<"U535A", "U58EB">>, <<"U4E2D", "U4E1E">> >>  \* 令史 祭酒 博士 中丞

STANDALONE_TITLES ==
  << <<"U592A", "U5BB0">>, <<"U592A", "U5085">>, <<"U592A", "U4FDD">>, <<"U592A", "U5C09">>,  \* 太宰 太傅 太保 太尉
     <<"U592A", "U5E2B">>, <<"U53F8", "U7A7A">>, <<"U53F8", "U5F92">>, <<"U4E1E", "U76F8">>,  \* 太師 司空 司徒 丞相
     <<"U4F8D", "U4E2D">>, <<"U90FD", "U7763">>, <<"U90FD", "U8B77">>, <<"U5FA1", "U53F2">>,  \* 侍中 都督 都護 御史
     <<"U570B", "U5B50">>, <<"U79D8", "U66F8">>, <<"U8457", "U4F5C">> >>  \* 國子 秘書 著作

nobility_suffixes ==
  << "U738B", "U516C", "U4FAF" >>  \* 王 公 侯

geo_suffixes ==
  << "U5DDE", "U90E1", "U7E23", "U570B" >>  \* 州 郡 縣 國

bad_endings ==
  << "U7232", "U70BA", "U4EE5", "U8ACB", "U9063", "U4F7F", "U4EE4", "U547D",  \* 爲 為 以 請 遣 使 令 命
     "U7387", "U53CA", "U8207", "U4E43", "U5247", "U5373", "U65E2", "U53C8",  \* 率 及 與 乃 則 即 既 又
     "U4E14", "U800C", "U6240", "U65BC", "U81EA", "U5F9E", "U81F3", "U5411",  \* 且 而 所 於 自 從 至 向
     "U5728", "U7531", "U5982", "U82E5", "U6216", "U56E0", "U7B49", "U66F0",  \* 在 由 如 若 或 因 等 曰
     "U8AF8", "U8D70", "U51FA", "U5BB3", "U6551", "U6BBA", "U6557", "U6536",  \* 諸 走 出 害 救 殺 敗 收
     "U653B", "U7834", "U964D", "U53CD", "U53DB", "U5954", "U6B78", "U5165",  \* 攻 破 降 反 叛 奔 歸 入
     "U514B", "U570D", "U64DA", "U8A0E", "U62D2", "U805E", "U9001", "U5C6F",  \* 克 圍 據 討 拒 聞 送 屯
     "U9084", "U9084", "U4E8C", "U4E09", "U56DB", "U4E94", "U516D", "U4E03",  \* 還 還 二 三 四 五 六 七
     "U516B", "U4E5D", "U5341", "U767E", "U5343", "U842C" >>  \* 八 九 十 百 千 萬

\* chars.last() is one of the characters of cs
last_char_in(name, cs) == name # <<>> /\ \E i \in 1..Len(cs) : cs[i] = name[Len(name)]

\* for suffix in table { if name.ends_with(suffix) { return true; } }
ends_with_any(name, table) == \E i \in 1..Len(table) : ends_with(name, table[i])

\* An is_false_positive that only consults the blacklist.
is_false_positive_blacklist_only(name) == \E i \in 1..Len(BLACKLIST) : BLACKLIST[i] = name

is_false_positive(name) ==
  \/ \E i \in 1..Len(BLACKLIST) : BLACKLIST[i] = name
  \/ ends_with_any(name, TITLE_SUFFIXES)
  \/ ends_with_any(name, STANDALONE_TITLES)
  \/ Len(name) >= 3 /\ last_char_in(name, nobility_suffixes)
  \/ last_char_in(name, geo_suffixes)
  \/ last_char_in(name, bad_endings)

\* crate::intext::is_false_positive_name, the filter scan_file calls
is_false_positive_name(person) == is_false_positive(person)

\* enum EventKind, from what a pattern captured
event_kind(m) ==
  CASE m.kind = "Appointment" -> Appointment(m.person, m.place)
    [] m.kind = "Promotion"   -> Promotion(m.person, m.place)
    [] m.kind = "Accession"   -> Accession(m.person)
    [] m.kind = "Battle"      -> Battle(m.person, m.place)
    [] m.kind = "Death"       -> Death(m.person)

\* one `for caps in self.re_X.captures_iter(content)` loop of scan_file over
\* the matches of the file, which are in the order of their offsets
RECURSIVE scan_kind(_, _, _, _)
scan_kind(matches, kind, ts, source_file) ==
  IF matches = <<>> THEN <<>>
  ELSE (IF Head(matches).kind = kind /\ ~is_false_positive_name(Head(matches).person)
        THEN <<[Event(event_kind(Head(matches)), Head(matches).locations)
                  EXCEPT !.time = find_time_context(ts, Head(matches).start),
                         !.source_file = source_file,
                         !.byte_offset = Head(matches).start]>>
        ELSE <<>>)
       \o scan_kind(Tail(matches), kind, ts, source_file)

scan_events(matches, ts, source_file) ==
  scan_kind(matches, "Appointment", ts, source_file)
    \o scan_kind(matches, "Promotion", ts, source_file)
    \o scan_kind(matches, "Accession", ts, source_file)
    \o scan_kind(matches, "Battle", ts, source_file)
    \o scan_kind(matches, "Death", ts, source_file)

\* scan_file: (events, scopes); the times are returned too, for the state
scan_file_times(era_re, content, b) == extract_times_of(era_re, content.time_matches, b)

scan_file_scopes(ts, content, source_file) == build_time_scopes(ts, content.len, source_file)

\* The persons the name pattern is taken to have captured
CapturedPersons ==
  {
    <<"U738B", "U9032">>, <<"U738B", "U51DD", "U4E4B">>, <<"U5289", "U7A46", "U4E4B">>,  \* 王進 王凝之 劉穆之
    <<"U5289", "U4E4B">>, <<"U53F8", "U99AC", "U61FF">>, <<"U738B", "U516C">>,  \* 劉之 司馬懿 王公
    <<"U738B", "U4E00">>, <<"U5DE6", "U50D5", "U5C04">>, <<"U5DE6", "U53F3">>,  \* 王一 左僕射 左右
    <<"U738B", "U5C07", "U8ECD">>, <<"U738B", "U53F8", "U99AC">>, <<"U5468", "U592A", "U5C09">>,  \* 王將軍 王司馬 周太尉
    <<"U6C5F", "U590F", "U738B">>, <<"U834A", "U5DDE">>, <<"U5289", "U88D5", "U70BA">>,  \* 江夏王 荊州 劉裕為
    <<"U738B", "U4E09">> }  \* 王三

EventKinds == {"Appointment", "Promotion", "Accession", "Battle", "Death"}

EventMatch(kind, start, person) ==
  [kind |-> kind, start |-> start, person |-> person, place |-> None, locations |-> <<>>]

WangNingZhi == <<"U738B", "U51DD", "U4E4B">>

FileContent(time_matches, event_matches) ==
  [len |-> 12, time_matches |-> time_matches, event_matches |-> event_matches]

\* The files scanned: every era of the catalogue followed by one event; several
\* time references with an event before, between or after them; one capture
\* of every person by every pattern; a file with an event of each kind.
RECURSIVE EventSeqs(_)
EventSeqs(n) ==
  IF n = 0 THEN {<<>>}
  ELSE EventSeqs(n - 1) \cup
       {Append(q, EventMatch("Death", s, WangNingZhi)) :
          q \in {q \in EventSeqs(n - 1) : Len(q) = n - 1}, s \in {0, 2, 6}}

FiveKinds ==
  << EventMatch("Death", 1, WangNingZhi), EventMatch("Battle", 2, WangNingZhi),
     EventMatch("Accession", 3, WangNingZhi), EventMatch("Promotion", 5, WangNingZhi),
     EventMatch("Appointment", 6, WangNingZhi) >>

EraContents ==
  {FileContent(tm, <<EventMatch("Death", 2, WangNingZhi)>>) : tm \in SingleMatches}

ShapeContents ==
  {FileContent(tm, em) : tm \in MatchSeqs(MaxTimeMatches), em \in EventSeqs(MaxFileMatches)}
  \cup {FileContent(<<TimeMatch(0, "TaiHe", <<"san">>, None)>>, <<EventMatch(k, 2, p)>>) :
          k \in EventKinds, p \in CapturedPersons}
  \cup {FileContent(<<TimeMatch(4, "TaiHe", <<"san">>, None)>>, FiveKinds)}

InitScanFile ==
  /\ call \in [fn : {"scan_file"}, book : Books, source_file : {"test.txt"},
                content : EraContents]
            \cup [fn : {"scan_file"}, book : ScanBooks, source_file : {"test.txt"},
                  content : ShapeContents]
  /\ ret = None /\ pc = "new"
  /\ content_len = 0 /\ times = <<>> /\ scopes = <<>> /\ events = <<>>
  /\ ExtractIdle /\ TimelineIdle

\* EventScanner::new: let era_re = regime::build_era_regex(); the pattern is
\* held in ret
NewEventScanner ==
  /\ pc = "new"
  /\ ret' = build_era_regex
  /\ pc' = "call"
  /\ UNCHANGED <<call, otherVars>>

Call_scan_file ==
  /\ pc = "call" /\ call.fn = "scan_file"
  /\ content_len' = call.content.len
  /\ times' = scan_file_times(ret, call.content, call.book)
  /\ scopes' = scan_file_scopes(scan_file_times(ret, call.content, call.book),
                                call.content, call.source_file)
  /\ events' = scan_events(call.content.event_matches,
                           scan_file_times(ret, call.content, call.book), call.source_file)
  /\ pc' = "ret"
  /\ UNCHANGED <<call, ret, extractVars, timelineVars>>

NextScanFile == NewEventScanner \/ Call_scan_file

SpecScanFile == InitScanFile /\ [][NextScanFile]_vars


(***************************************************************************)
(* main.rs: run_extract, phases 2 and 5, and event.rs:                      *)
(* EventScanner::scan_corpus.  A file of the corpus is a BiographyFile with *)
(* what fs::read_to_string gives for its path: None when the read fails,    *)
(* else the content, which has the header lines parse_biography looks at    *)
(* and the matches scan_file finds.  The statistics of scan_corpus are the  *)
(* event counters; the two hash maps of EventStats are printed only.        *)
(***************************************************************************)

MaxCorpusFiles == 3

\* bio as parse_biography reads it
header_file(bio) ==
  [bio EXCEPT !.read = IF IsSome(bio.read) THEN Some(Unwrap(bio.read).lines) ELSE None]

\* match parser::parse_biography(bio) { Some(person) => persons.push(person),
\*                                        None => failed.push(path) }
push_parsed(acc, parsed, path) ==
  IF IsSome(parsed)
  THEN [acc EXCEPT !.persons = Append(@, Unwrap(parsed))]
  ELSE [acc EXCEPT !.failed = Append(@, path)]

\* Phase 2: for bio in &bio_files { .. }
RECURSIVE parse_persons(_, _)
parse_persons(bio_files, acc) ==
  IF bio_files = <<>> THEN acc
  ELSE parse_persons(Tail(bio_files),
         push_parsed(acc, parse_biography(header_file(Head(bio_files))),
                     Head(bio_files).path))

count_kind(es, type) == Len(SelectSeq(es, LAMBDA e : e.kind.type = type))

\* scan_file: (events, scopes), given the time references of the file
scan_file_with(ts, content, source_file) ==
  <<scan_events(content.event_matches, ts, source_file),
    scan_file_scopes(ts, content, source_file)>>

scan_file(era_re, content, b, source_file) ==
  scan_file_with(scan_file_times(era_re, content, b), content, source_file)

\* the counters, then all_events.extend(events); all_scopes.extend(scopes)
extend_corpus(acc, es, scs) ==
  [all_events   |-> acc.all_events \o es,
   all_scopes   |-> acc.all_scopes \o scs,
   appointments |-> acc.appointments + count_kind(es, "Appointment"),
   promotions   |-> acc.promotions + count_kind(es, "Promotion"),
   accessions   |-> acc.accessions + count_kind(es, "Accession"),
   battles      |-> acc.battles + count_kind(es, "Battle"),
   deaths       |-> acc.deaths + count_kind(es, "Death")]

extend_with(acc, scanned) == extend_corpus(acc, scanned[1], scanned[2])

EmptyCorpus ==
  [all_events |-> <<>>, all_scopes |-> <<>>, appointments |-> 0, promotions |-> 0,
   accessions |-> 0, battles |-> 0, deaths |-> 0]

\* A loop body of scan_corpus that drops what was collected so far when a
\* file cannot be read.
scan_corpus_file_reset(era_re, bio, acc) ==
  IF ~IsSome(bio.read)
  THEN EmptyCorpus
  ELSE extend_with(acc, scan_file(era_re, Unwrap(bio.read), bio.source.book, bio.path))

\* The body of `for bio in bio_files` in EventScanner::scan_corpus
scan_corpus_file(era_re, bio, acc) ==
  IF ~IsSome(bio.read)
  THEN acc                                                  \* Err(_) => continue
  ELSE extend_with(acc, scan_file(era_re, Unwrap(bio.read), bio.source.book, bio.path))

RECURSIVE scan_corpus_loop(_, _, _)
scan_corpus_loop(era_re, bio_files, acc) ==
  IF bio_files = <<>> THEN acc
  ELSE scan_corpus_loop(era_re, Tail(bio_files), scan_corpus_file(era_re, Head(bio_files), acc))

\* let stats = EventStats {..}; let time_index = TimeIndex { scopes: all_scopes };
corpus_result(acc) ==
  <<acc.all_events,
    [scopes |-> acc.all_scopes],
    [total_events |-> Len(acc.all_events), appointments |-> acc.appointments,
     promotions |-> acc.promotions, accessions |-> acc.accessions,
     battles |-> acc.battles, deaths |-> acc.deaths]>>

\* EventScanner::scan_corpus: (all_events, time_index, stats)
event_scan_corpus(era_re, bio_files) ==
  corpus_result(scan_corpus_loop(era_re, bio_files, EmptyCorpus))

\* The contents a file of the corpus can have: a biography with a death dated
\* by 太和三年, a text without a header with an appointment before its date,
\* an annals-style header without any match.
CorpusContents ==
  { [lines |-> <<"official">>, len |-> 12,
     time_matches |-> <<TimeMatch(0, "TaiHe", <<"san">>, None)>>,
     event_matches |-> <<EventMatch("Death", 6, WangNingZhi)>>],
    [lines |-> <<"text">>, len |-> 12,
     time_matches |-> <<TimeMatch(4, "YongXing", <<"yuan">>, None)>>,
     event_matches |-> <<EventMatch("Appointment", 2, WangNingZhi)>>],
    [lines |-> <<"blank", "emperor">>, len |-> 12,
     time_matches |-> <<>>, event_matches |-> <<>>] }

DiskFile(i, read) ==
  [source |-> [book |-> "WeiShu", section |-> "LieZhuan", juan |-> "juan1"],
   path |-> i, read |-> read]

Corpora ==
  UNION {{[i \in 1..n |-> DiskFile(i, reads[i])] :
            reads \in [1..n -> {None} \cup {Some(c) : c \in CorpusContents}]} :
         n \in 0..MaxCorpusFiles}

InitCorpus ==
  /\ call \in [fn : {"run_extract"}, bio_files : Corpora]
  /\ ret = None /\ pc = "phase2" /\ OtherIdle

\* Phase 2: parse person info from each file
ParsePersons ==
  /\ pc = "phase2"
  /\ ret' = parse_persons(call.bio_files, [persons |-> <<>>, failed |-> <<>>, stats |-> None])
  /\ pc' = "phase5"
  /\ UNCHANGED <<call, otherVars>>

\* Phase 5: EventScanner::new(&persons).scan_corpus(&bio_files)
ScanCorpusEvents ==
  /\ pc = "phase5"
  /\ all_events' = event_scan_corpus(build_era_regex, call.bio_files)[1]
  /\ time_index' = event_scan_corpus(build_era_regex, call.bio_files)[2]
  /\ ret' = [ret EXCEPT !.stats = Some(event_scan_corpus(build_era_regex, call.bio_files)[3])]
  /\ pc' = "output"
  /\ UNCHANGED <<call, scanVars, person_freq, location_freq, high_confidence, unstructured,
                 map, regime_map, timeline, prev_timeline>>

NextCorpus == ParsePersons \/ ScanCorpusEvents

SpecCorpus == InitCorpus /\ [][NextCorpus]_vars

(***************************************************************************)
(* main.rs: run_locate step by step.  After the sort and the cutoff the     *)
(* function either returns (no timed event matches the query) or walks the  *)
(* timed events; ret then holds the locals of run_locate (the sorted        *)
(* events with their keys, query_max_key, state) until the output is built. *)
(***************************************************************************)

\* The queries of the walk: one whose cutoff is the last 太和 year of the
\* events, one with the cutoff 478 or no match, one that reaches 508.
WalkQueries ==
  { [kind |-> "Single", era |-> "TaiHe", year |-> None],
    [kind |-> "AdYear", year |-> 478],
    [kind |-> "AdRange", from |-> 477, to |-> 508] }

InitWalk ==
  /\ call \in [fn : {"run_locate"}, all_events : SeqsUpTo(LocateEvents, MaxLocateEvents),
               parsed : WalkQueries]
  /\ ret = None /\ pc = "sort" /\ OtherIdle

\* query_max_key of run_locate
query_cutoff(es, parsed) == query_max_key_of(timed_events_of(es), parsed)

\* None => { eprintln!("No events found for: {raw}"); return; }
NoEventsFound ==
  /\ pc = "sort" /\ call.fn = "run_locate"
  /\ ~IsSome(query_cutoff(call.all_events, call.parsed))
  /\ ret' = None
  /\ pc' = "ret"
  /\ UNCHANGED <<call, otherVars>>

walk_locals(timed, cutoff) ==
  [timed_events |-> timed, query_max_key |-> cutoff, state |-> walk(<<>>, timed, cutoff)]

walk_sorted(timed, parsed) == walk_locals(timed, Unwrap(query_max_key_of(timed, parsed)))

\* the sort, the cutoff and `for e in &timed_events { .. }`
WalkEvents ==
  /\ pc = "sort" /\ call.fn = "run_locate"
  /\ IsSome(query_cutoff(call.all_events, call.parsed))
  /\ ret' = walk_sorted(timed_events_of(call.all_events), call.parsed)
  /\ pc' = "walked"
  /\ UNCHANGED <<call, otherVars>>

\* Build output: filter to persons with known location, not dead, not stale
BuildOutput ==
  /\ pc = "walked"
  /\ ret' = Some(locate_result(ret.state, count_persons(<<>>, call.all_events),
                               ret.query_max_key))
  /\ pc' = "ret"
  /\ UNCHANGED <<call, otherVars>>

NextWalk == NoEventsFound \/ WalkEvents \/ BuildOutput

SpecWalk == InitWalk /\ [][NextWalk]_vars

(***************************************************************************)
(* Claims                                                                   *)
(***************************************************************************)

EntriesNamed(era) == {i \in 1..Len(ERA_NAMES) : ERA_NAMES[i].name = era}
SetMin(S) == CHOOSE m \in S : \A x \in S : m <= x

EntriesOf(regime_chinese, era) ==
  {i \in 1..Len(ERA_NAMES) :
     as_chinese(ERA_NAMES[i].regime) = regime_chinese /\ ERA_NAMES[i].name = era}

AdCall(regime_chinese, era, year) ==
  pc = "ret" /\ call = [fn |-> "exact_ad_year", regime |-> regime_chinese,
                        era_name |-> era, year |-> year]

\* C6: exact_ad_year returns start_ad + year - 1 of the catalogue entry with
\* that regime and era name, and is absent when no entry has that pair; with
\* the values 劉宋/元嘉 1 -> 424, 30 -> 453, 北魏/太和 1 -> 477, 23 -> 499,
\* 東晉/義熙 14 -> 418.
C6_ExactAdYear ==
  /\ (pc = "ret" /\ call.fn = "exact_ad_year") =>
       LET found == EntriesOf(call.regime, call.era_name)
       IN  /\ \A i \in found : ret = Some(ERA_NAMES[i].start_ad + call.year - 1)
           /\ found = {} => ret = None
  /\ AdCall("LiuSong", "YuanJia", 1)  => ret = Some(424)
  /\ AdCall("LiuSong", "YuanJia", 30) => ret = Some(453)
  /\ AdCall("BeiWei", "TaiHe", 1)     => ret = Some(477)
  /\ AdCall("BeiWei", "TaiHe", 23)    => ret = Some(499)
  /\ AdCall("DongJin", "YiXi", 14)    => ret = Some(418)

\* 北魏/太和 year 23, an era name that other regimes share.
C6_Witness == AdCall("BeiWei", "TaiHe", 23) /\ ret = Some(499)

\* The accepted numerals and their values, form by form.
NumeralForms ==
  {<< <<"yuan">>, 1 >>, << <<"shi">>, 10 >>}
  \cup {<< <<CnDigits[d]>>, d >> : d \in 1..9}
  \cup {<< <<"shi", CnDigits[d]>>, 10 + d >> : d \in 1..9}
  \cup {<< <<CnDigits[d], "shi">>, 10 * d >> : d \in 1..9}
  \cup {<< <<CnDigits[d[1]], "shi", CnDigits[d[2]]>>, 10 * d[1] + d[2] >> : d \in (1..9) \X (1..9)}

ScopesBuilt == pc \notin {"extract_times", "build_time_scopes"}

\* The scopes that contain byte b.
Covering(b) ==
  {i \in 1..Len(scopes) : scopes[i].span.byte_start <= b /\ b < scopes[i].span.byte_end}

\* C1: build_time_scopes returns one scope per time reference, in order; scope
\* i starts at the offset of time reference i and ends at the offset of time
\* reference i+1 (the last one at the file length); every scope has
\* byte_start < byte_end, every byte of [first_time_offset, EOF) lies in
\* exactly one scope and no byte before it in any; no time reference gives no
\* scope.
C1_BuildTimeScopes ==
  ScopesBuilt =>
    /\ Len(scopes) = Len(times)
    /\ \A i \in 1..Len(scopes) :
         /\ scopes[i].time = times[i][2]
         /\ scopes[i].span.byte_start = times[i][1]
         /\ scopes[i].span.byte_end =
              (IF i < Len(times) THEN times[i + 1][1] ELSE content_len)
         /\ scopes[i].span.byte_start < scopes[i].span.byte_end
    /\ \A i, j \in 1..Len(scopes) :
         i < j => scopes[i].span.byte_start < scopes[j].span.byte_start
    /\ times # <<>> =>
         \A b \in 0..(content_len - 1) :
           Cardinality(Covering(b)) = (IF b >= times[1][1] THEN 1 ELSE 0)
    /\ times = <<>> => scopes = <<>>

\* Two time references: the first scope ends where the second starts, the
\* second at the end of the file.
C1_Witness ==
  /\ ScopesBuilt
  /\ Len(times) = 2 /\ Len(scopes) = 2
  /\ scopes[1].span.byte_end = scopes[2].span.byte_start
  /\ scopes[2].span.byte_end = content_len

TimeRefs == {times[i][2] : i \in 1..Len(times)}

\* C2: the time of every event is the time reference of the file with the
\* greatest byte offset strictly below the event's offset, and it is absent
\* exactly when no time reference lies strictly below the event's offset.
C2_TimeContext ==
  \A k \in 1..Len(events) :
    LET e == events[k]
        earlier == {t \in TimeRefs : t.byte_offset < e.byte_offset}
    IN  /\ (e.time = None) <=> (earlier = {})
        /\ IsSome(e.time) =>
             /\ Unwrap(e.time) \in earlier
             /\ \A t \in earlier : t.byte_offset <= Unwrap(e.time).byte_offset
             /\ ~ \E t \in TimeRefs : /\ Unwrap(e.time).byte_offset < t.byte_offset
                                      /\ t.byte_offset < e.byte_offset

\* An event after two time references takes the second, and an event before
\* every time reference has none.
C2_Witness ==
  /\ pc = "done"
  /\ Len(times) = 2
  /\ \E k \in 1..Len(events) :
       /\ events[k].byte_offset > times[2][1]
       /\ events[k].time = Some(times[2][2])
  /\ \E k \in 1..Len(events) : events[k].time = None

\* An emitted event is the extracted event of the same place in the corpus.
SameEvent(emitted, e) ==
  /\ emitted.source_file = e.source_file
  /\ emitted.byte_offset = e.byte_offset
  /\ emitted.kind.type = e.kind.type
  /\ emitted.kind.person = e.kind.person

\* The number of extracted events of a person.
EventsOf(person) ==
  Cardinality({i \in 1..Len(all_events) : all_events[i].kind.person = person})

Emitted(list, e) == {k \in 1..Len(list) : SameEvent(list[k], e)}

\* C3: every extracted event is emitted exactly once, in `events` if and only
\* if its person is the person of at least 2 extracted events, and otherwise
\* in `unstructured_events`; nothing else is emitted.
C3_Split ==
  pc = "written" =>
    /\ Len(high_confidence) + Len(unstructured) = Len(all_events)
    /\ \A i \in 1..Len(all_events) :
         LET e == all_events[i]
         IN  /\ Cardinality(Emitted(high_confidence, e))
                  + Cardinality(Emitted(unstructured, e)) = 1
             /\ (Emitted(high_confidence, e) # {}) <=> (EventsOf(e.kind.person) >= 2)

\* A person with two events next to a person with one: both lists are used.
C3_Witness ==
  /\ pc = "written"
  /\ Len(high_confidence) = 2
  /\ Len(unstructured) = 1
  /\ high_confidence[1].kind.person # unstructured[1].kind.person

\* The corpus-wide frequency of a location name before filtering: its
\* occurrences among the context-window locations and the structured places.
LocationFrequency(name) ==
  Cardinality(UNION {{<<i, j>> : j \in {j \in 1..Len(all_events[i].locations) :
                                             all_events[i].locations[j].name = name}} :
                     i \in 1..Len(all_events)})
  + Cardinality({i \in 1..Len(all_events) :
                   /\ IsSome(structured_place(all_events[i]))
                   /\ Unwrap(structured_place(all_events[i])).name = name})

\* The fields a filter may not touch.
SameButPlaces(h, e) ==
  /\ h.time = e.time /\ h.source_file = e.source_file
  /\ h.byte_offset = e.byte_offset /\ h.context = e.context
  /\ DOMAIN h.kind = DOMAIN e.kind
  /\ \A f \in DOMAIN e.kind \ {"place", "target_place"} : h.kind[f] = e.kind[f]

\* C4: in every high-confidence event each location left in `locations` and
\* any structured place still present has a corpus-wide frequency of at least
\* 2; the locations kept are exactly those of the extracted event that reach
\* the threshold, a structured place below it is none, one that reaches it is
\* kept, and the other fields are unchanged.
C4_LocationFilter ==
  pc = "written" =>
    \A k \in 1..Len(high_confidence) :
      LET h == high_confidence[k]
      IN  /\ \A j \in 1..Len(h.locations) : LocationFrequency(h.locations[j].name) >= 2
          /\ IsSome(structured_place(h)) =>
               LocationFrequency(Unwrap(structured_place(h)).name) >= 2
          /\ \E i \in 1..Len(all_events) :
               LET e == all_events[i]
               IN  /\ SameButPlaces(h, e)
                   /\ h.locations =
                        SelectSeq(e.locations, LAMBDA l : LocationFrequency(l.name) >= 2)
                   /\ structured_place(h) =
                        (IF IsSome(structured_place(e))
                            /\ LocationFrequency(Unwrap(structured_place(e)).name) >= 2
                         THEN structured_place(e) ELSE None)

\* A high-confidence event that lost its structured place and one that kept
\* a context-window location.
C4_Witness ==
  /\ pc = "written"
  /\ \E k \in 1..Len(high_confidence) : \E i \in 1..Len(all_events) :
       /\ SameEvent(high_confidence[k], all_events[i])
       /\ IsSome(structured_place(all_events[i]))
       /\ structured_place(high_confidence[k]) = None
  /\ \E k \in 1..Len(high_confidence) : high_confidence[k].locations # <<>>

\* The scopes handed to from_scopes and the Timeline it returned
ScopeTriple(s) == <<s.time.regime, s.time.era, s.time.year>>
ScopeTriples == {ScopeTriple(time_index[i]) : i \in 1..Len(time_index)}
FilesOf(t) ==
  {time_index[i].span.file : i \in {i \in 1..Len(time_index) : ScopeTriple(time_index[i]) = t}}

\* The positions <<regime, era, year>> of the TimePoints of a Timeline
Positions(tl) ==
  UNION {UNION {{<<i, j, k>> : k \in 1..Len(tl.regimes[i].eras[j].years)}
                : j \in 1..Len(tl.regimes[i].eras)}
         : i \in 1..Len(tl.regimes)}
PointAt(tl, p) == tl.regimes[p[1]].eras[p[2]].years[p[3]]
TripleAt(tl, p) ==
  <<tl.regimes[p[1]].regime, tl.regimes[p[1]].eras[p[2]].era, PointAt(tl, p).year>>

\* C8: from_scopes produces exactly one TimePoint for each distinct
\* (regime, era, year) triple of the scopes and no other; total_time_points is
\* the number of distinct triples; the occurrence_count of a TimePoint is the
\* number of distinct files whose scopes carry its triple.
C8_FromScopes ==
  pc = "built" =>
    LET tl == Unwrap(timeline)
    IN  /\ \A t \in ScopeTriples :
             Cardinality({p \in Positions(tl) : TripleAt(tl, p) = t}) = 1
        /\ \A p \in Positions(tl) :
             /\ TripleAt(tl, p) \in ScopeTriples
             /\ PointAt(tl, p).era = tl.regimes[p[1]].eras[p[2]].era
             /\ PointAt(tl, p).occurrence_count = Cardinality(FilesOf(TripleAt(tl, p)))
        /\ tl.total_time_points = Cardinality(ScopeTriples)

\* 北魏 太和 元年 twice in a.txt and once in b.txt: one TimePoint, counted 2.
C8_Witness ==
  /\ pc = "built"
  /\ time_index = << TimeScope("BeiWei", "TaiHe", 1, "a.txt"),
                     TimeScope("BeiWei", "TaiHe", 1, "a.txt"),
                     TimeScope("BeiWei", "TaiHe", 1, "b.txt") >>
  /\ Unwrap(timeline).total_time_points = 1
  /\ Unwrap(timeline).regimes[1].eras[1].years[1].occurrence_count = 2

\* The AD start year of the regime with a display name, and the catalogue
\* index of an era under a regime
StartYearOf(regime_chinese) ==
  start_ad_year(CHOOSE r \in Regimes : as_chinese(r) = regime_chinese)
CatalogueIndex(regime_chinese, era) == SetMin(EntriesOf(regime_chinese, era))

\* C9: in a Timeline built by from_scopes the regimes are in non-decreasing
\* order of AD start year, the eras of each regime in increasing order of
\* catalogue index under that regime, and the years of each era strictly
\* ascending.
C9_TimelineOrder ==
  pc = "built" =>
    LET tl == Unwrap(timeline)
    IN  /\ \A i \in 1..Len(tl.regimes) : \A j \in (i + 1)..Len(tl.regimes) :
             StartYearOf(tl.regimes[i].regime) <= StartYearOf(tl.regimes[j].regime)
        /\ \A i \in 1..Len(tl.regimes) :
             LET r == tl.regimes[i]
             IN  /\ \A j \in 1..Len(r.eras) : \A k \in (j + 1)..Len(r.eras) :
                      CatalogueIndex(r.regime, r.eras[j].era)
                        < CatalogueIndex(r.regime, r.eras[k].era)
                 /\ \A j \in 1..Len(r.eras) :
                      LET ys == r.eras[j].years
                      IN  \A k \in 1..Len(ys) : \A l \in (k + 1)..Len(ys) :
                            ys[k].year < ys[l].year

\* Scopes given as 北魏 太和, 北魏 永興, 漢趙 元熙: the Timeline has 漢趙 (304)
\* before 北魏 (386) and, under 北魏, 永興 before 太和.
C9_Witness ==
  /\ pc = "built"
  /\ time_index = << TimeScope("BeiWei", "TaiHe", 1, "a.txt"),
                     TimeScope("BeiWei", "YongXing", 1, "a.txt"),
                     TimeScope("HanZhao", "YuanXi1", 1, "a.txt") >>
  /\ Len(Unwrap(timeline).regimes) = 2
  /\ Unwrap(timeline).regimes[1].regime = "HanZhao"
  /\ Unwrap(timeline).regimes[2].eras[1].era = "YongXing"
  /\ Unwrap(timeline).regimes[2].eras[2].era = "TaiHe"

\* C10: two runs of from_scopes on the same scopes yield the same Timeline,
\* whatever the iteration order of the hash maps, also for regimes that share
\* an AD start year.
C10_Deterministic ==
  (pc = "built" /\ prev_timeline # None) => timeline = prev_timeline

\* The scopes of a query result, and a result as a part of another
ScopesIn(result) == {result[i] : i \in 1..Len(result)}
Years8 == 0..255

\* C11: query_range(e, y, y) returns the same scopes in the same order as
\* query(e, Some(y)), and every scope query(e, Some(y)) returns is also
\* returned by query(e, None).
C11_QueryRefines ==
  pc = "ret" =>
    /\ (call.fn = "query_range" /\ call.year_from = call.year_to) =>
         ret = query(time_index, call.era, Some(call.year_from))
    /\ (call.fn = "query" /\ IsSome(call.year)) =>
         /\ ScopesIn(ret) \subseteq ScopesIn(query(time_index, call.era, None))
         /\ ret = query_range(time_index, call.era, Unwrap(call.year), Unwrap(call.year))

\* query_range(太和, 1, 1) on an index with a scope of 太和 元年 and one of 二年
C11_Witness ==
  /\ pc = "ret" /\ call.fn = "query_range"
  /\ call.era = "TaiHe" /\ call.year_from = 1 /\ call.year_to = 1
  /\ Len(ret) = 1 /\ Len(time_index) = 2
  /\ \E i \in 1..Len(time_index) : time_index[i].time.era = "TaiHe" /\ time_index[i].time.year = 2

\* The scopes the single queries (era, year) return over the catalogue entries
\* of a regime and every year, restricted to that regime
SingleQueriesOf(regime_chinese) ==
  UNION {UNION {{s \in ScopesIn(query(time_index, ERA_NAMES[i].name, Some(y))) :
                   s.time.regime = regime_chinese}
                : y \in Years8}
         : i \in {i \in 1..Len(ERA_NAMES) : as_chinese(ERA_NAMES[i].regime) = regime_chinese}}

\* C12: on an index produced by extraction, query_regime(R) returns exactly
\* the scopes that the single queries over the catalogue eras of R and every
\* year return, restricted to R.
C12_RegimeQuery ==
  (pc = "ret" /\ call.fn = "query_regime") =>
    LET singles == SingleQueriesOf(call.regime)
    IN  ret = SelectSeq(time_index, LAMBDA s : s \in singles)

\* query_regime(北魏) on an index holding 太和 read in 魏書 (北魏) and in 宋書 (東晉)
C12_Witness ==
  /\ pc = "ret" /\ call.fn = "query_regime" /\ call.regime = "BeiWei"
  /\ Len(time_index) = 2 /\ Len(ret) = 1
  /\ ret[1].time.era = "TaiHe"
  /\ \E i \in 1..2 : time_index[i].time.era = "TaiHe" /\ time_index[i].time.regime = "DongJin"

\* The dash characters of a query, and the text of an AD year: digits that
\* denote a 16-bit number, then AD or ad
DashChars == {"-", "emdash", "~"}

RECURSIVE DecimalValue(_)
DecimalValue(d) ==
  IF d = <<>> THEN 0 ELSE DecimalValue(SubSeq(d, 1, Len(d) - 1)) * 10 + digit_value(d[Len(d)])

AdDigits(s) ==
  LET t == trim(s) IN trim(SubSeq(t, 1, Len(t) - 2))

IsAdText(s) ==
  LET t == trim(s)
  IN  /\ Len(t) >= 3
      /\ SubSeq(t, Len(t) - 1, Len(t)) \in {<<"A", "D">>, <<"a", "d">>}
      /\ AdDigits(s) # <<>>
      /\ \A i \in 1..Len(AdDigits(s)) : is_ascii_digit(AdDigits(s)[i])
      /\ DecimalValue(AdDigits(s)) <= 65535

Before(r, i) == SubSeq(r, 1, i - 1)
After(r, i) == SubSeq(r, i + 1, Len(r))

RangeSplitAt(r, i) ==
  LET left == parse_era_year(Before(r, i))
      right == parse_era_year(After(r, i))
  IN  (IsSome(left[2]) /\ IsSome(right[2])) =>
        ret = Range(IF left[1] = <<>> THEN right[1] ELSE left[1],
                    Unwrap(left[2]), Unwrap(right[2]))

NonAdDashQuery ==
  /\ pc = "ret"
  /\ ret.kind \in {"Range", "Single"}
  /\ \E i \in 1..Len(trim(call.raw)) : trim(call.raw)[i] \in DashChars

\* C14 as stated: a non-AD query with a dash is split on its first dash
\* character, whichever of the three it is; both sides yielding a year give
\* Range with the years of the left and the right side and the era of the left
\* side, or of the right side when the left has none.
C14_SplitFirstDash ==
  NonAdDashQuery =>
    LET r == trim(call.raw)
    IN  RangeSplitAt(r, SetMin({i \in 1..Len(r) : r[i] \in DashChars}))

\* C14, amended: the split is on the first occurrence of the dash kind of
\* highest priority in the string (- before the em dash before ~); the rest as
\* stated.
C14_SplitPriorityDash ==
  NonAdDashQuery =>
    LET r == trim(call.raw)
        kind == IF \E i \in 1..Len(r) : r[i] = "-" THEN "-"
                ELSE IF \E i \in 1..Len(r) : r[i] = "emdash" THEN "emdash" ELSE "~"
    IN  RangeSplitAt(r, SetMin({i \in 1..Len(r) : r[i] = kind}))

\* "太和3~3-3" is split on the -, not on the ~ before it: the era is "太和3~".
C14_Witness ==
  /\ pc = "ret"
  /\ call.raw = EraChars["TaiHe"] \o <<"3", "~", "3", "-", "3">>
  /\ ret = Range(EraChars["TaiHe"] \o <<"3", "~">>, 3, 3)

\* C15: the query that is an era name of the catalogue alone is parsed as
\* Single(era, no year), also for the names that end in 元.
C15_EraOnlyQuery ==
  (pc = "ret" /\ \E e \in EraNames : call.raw = EraChars[e]) =>
    ret = Single(call.raw, None)

\* C16: for every era name e of the catalogue and numeral n the time pattern
\* accepts with value y, parse_era_year(e + n + 年) is (e, y).
C16_EraYearRoundTrip ==
  pc = "ret" =>
    ret = <<EraChars[call.era], parse_cn_number(call.numeral)>>

\* 建元十二年 is (建元, 12)
C16_Witness ==
  /\ pc = "ret" /\ call.era = "JianYuan" /\ call.numeral = <<"shi", "er">>
  /\ ret = <<EraChars["JianYuan"], Some(12)>>

\* The AD years of the events of a run_locate call (0 for an untimed event,
\* which is never walked), the events that match the query and the cutoff
RECURSIVE AdYearsOf(_)
AdYearsOf(es) ==
  IF es = <<>> THEN <<>>
  ELSE <<IF IsSome(Head(es).time) THEN time_sort_key(Unwrap(Head(es).time)) ELSE 0>>
       \o AdYearsOf(Tail(es))

SetMax(S) == CHOOSE m \in S : \A x \in S : x <= m

Matching ==
  {i \in 1..Len(call.all_events) :
     /\ IsSome(call.all_events[i].time)
     /\ time_matches_query(Unwrap(call.all_events[i].time), call.parsed)}
CutoffOf(years) == SetMax({years[i] : i \in Matching})

\* The events of a person that were walked: the timed ones up to the cutoff
WalkedOf(p, years, c) ==
  {i \in 1..Len(call.all_events) :
     /\ IsSome(call.all_events[i].time)
     /\ person_name(call.all_events[i]) = p
     /\ years[i] <= c}
HasPlace(e) == IsSome(structured_place(e)) \/ e.locations # <<>>
Persons == {person_name(call.all_events[i]) : i \in 1..Len(call.all_events)}

\* C17: run_locate emits exactly the persons for whom no Death event up to the
\* cutoff was walked, who have a recorded location, whose last walked event is
\* at most 30 AD years before the cutoff, and who are the person of at least
\* 2 events of the whole event set.
C17_LocateFilter ==
  (pc = "ret" /\ Matching # {}) =>
    LET years == AdYearsOf(call.all_events)
        c == CutoffOf(years)
    IN  /\ IsSome(ret)
        /\ DOMAIN Unwrap(ret) =
             {p \in Persons :
                LET walked == WalkedOf(p, years, c)
                IN  /\ walked # {}
                    /\ \A i \in walked : call.all_events[i].kind.type # "Death"
                    /\ \E i \in walked : HasPlace(call.all_events[i])
                    /\ c - SetMax({years[i] : i \in walked}) <= 30
                    /\ Cardinality({i \in 1..Len(call.all_events) :
                                      person_name(call.all_events[i]) = p}) >= 2}

\* 王進 appointed at 荊州 in 478 and seen again without a place in 508: emitted
\* for the cutoff 508, 30 years after the appointment; 劉裕, with one event, is
\* not.
C17_Witness ==
  /\ pc = "ret" /\ IsSome(ret)
  /\ call.parsed = [kind |-> "Single", era |-> "YongPing", year |-> Some(1)]
  /\ Len(call.all_events) = 3
  /\ call.all_events[1].kind.type = "Appointment"
  /\ call.all_events[1].time = LocateTime("TaiHe", 2)
  /\ "WangJin" \in DOMAIN Unwrap(ret)
  /\ ~("LiuYu" \in DOMAIN Unwrap(ret))
  /\ "LiuYu" \in Persons

\* The AD year at which the location emitted for a person was recorded: that
\* of the last walked event of the person that has a place
LocationYear(p, years, c) ==
  SetMax({years[i] : i \in {i \in WalkedOf(p, years, c) : HasPlace(call.all_events[i])}})

\* C18: an emitted person is tagged current exactly when the location was
\* recorded at the cutoff AD year and last_known otherwise, and as_of_ad is
\* never greater than the cutoff.
C18_LocateStatus ==
  (pc = "ret" /\ IsSome(ret)) =>
    LET years == AdYearsOf(call.all_events)
        c == CutoffOf(years)
    IN  \A p \in DOMAIN Unwrap(ret) :
          LET out == Unwrap(ret)[p]
              recorded == LocationYear(p, years, c)
          IN  /\ out.as_of_ad = recorded
              /\ out.status = (IF recorded = c THEN "current" ELSE "last_known")
              /\ out.as_of_ad <= c

\* 王進 with a location recorded in 478 and last seen, without a place, in 508:
\* last_known for the cutoff 508.
C18_Witness ==
  /\ pc = "ret" /\ IsSome(ret)
  /\ call.parsed = [kind |-> "Regime", regime |-> "BeiWei"]
  /\ CutoffOf(AdYearsOf(call.all_events)) = 508
  /\ "WangJin" \in DOMAIN Unwrap(ret)
  /\ Unwrap(ret)["WangJin"].status = "last_known"
  /\ Unwrap(ret)["WangJin"].as_of_ad = 478

\* C19: scan_corpus returns no .txt file whose stem, once a leading prefix of
\* digits and an underscore is stripped, is one of 目录, 史論, 史評, 論, 評, 贊,
\* 評贊, 序, 注, 正文, 附錄, except that the file 目录 of an Annals (本紀) or
\* Foreign-Records (載記) section is returned; and it returns no file whose
\* stripped stem ends in 年 or 年餘, whatever the section.  The prefix is read
\* both with at least one digit and with any number of digits.
SkipList ==
  { MuLu, <<"Shi3", "Lun4">>, <<"Shi3", "Ping2">>, <<"Lun4">>, <<"Ping2">>, <<"Zan4">>,
    <<"Ping2", "Zan4">>, <<"Xu4">>, <<"Zhu4">>, <<"Zheng4", "Wen2">>, <<"Fu4", "Lu4">> }

DigitPrefixEnds(stem, min_digits) ==
  {i \in (min_digits + 1)..Len(stem) :
     stem[i] = "_" /\ \A j \in 1..(i - 1) : stem[j] \in {"0", "1", "2", "3", "4", "5", "6", "7", "8", "9"}}

StrippedStem(stem, min_digits) ==
  IF DigitPrefixEnds(stem, min_digits) = {} THEN stem
  ELSE LET i == CHOOSE k \in DigitPrefixEnds(stem, min_digits) : TRUE
       IN  SubSeq(stem, i + 1, Len(stem))

EndsInYear(s) ==
  \/ Len(s) >= 1 /\ s[Len(s)] = "nian"
  \/ Len(s) >= 2 /\ s[Len(s) - 1] = "nian" /\ s[Len(s)] = "Yu2"

Returned(f, results) == \E k \in 1..Len(results) : results[k].path = f

KeptSection(f) == section_from_dir_name(f.section_dir) \in {"BenJi", "ZaiJi"}

SkipRuleHolds(f, st, results) ==
  /\ (st \in SkipList /\ ~(st = MuLu /\ KeptSection(f))) => ~Returned(f, results)
  /\ EndsInYear(st) => ~Returned(f, results)
  /\ (st = MuLu /\ KeptSection(f) /\ IsSome(book_from_dir_name(f.book_dir)))
       => Returned(f, results)

C20_DigitPrefixOnly ==
  (pc = "ret" /\ call.fn = "scan_corpus") =>
    \A k \in 1..Len(ret) : DigitPrefixEnds(ret[k].path.stem, 1) # {}

\* C21: in the catalogue ERA_NAMES an era name occurs at most once per regime:
\* no two entries have both the same name and the same regime.  It is stated
\* for the entries resolve_era and exact_ad_year search, whatever the lookup.
C21_UniquePerRegime ==
  (pc \in {"call", "ret"}) =>
    \A i, j \in 1..Len(ERA_NAMES) :
      (ERA_NAMES[i].name = ERA_NAMES[j].name /\ ERA_NAMES[i].regime = ERA_NAMES[j].regime)
        => i = j

\* C29: parse_biography inspects the first 10 non-blank lines of the file: a
\* header that matches a template for the section and sits on the k-th
\* non-blank line, k at most 10, is parsed whatever number of blank lines
\* precede it, and a header on a later non-blank line is never parsed; lines
\* are tried in file order, Emperor templates before Official ones in Annals
\* and Foreign-Records files and Official ones first otherwise, and the Ruler
\* templates only for Foreign-Records files after every inspected line failed.
NonBlankIndex(content, i) == Cardinality({j \in 1..i : content[j] # "blank"})

Inspected(content) ==
  {i \in 1..Len(content) : content[i] # "blank" /\ NonBlankIndex(content, i) <= 10}

StrictHeader(l) == l \in {"emperor", "official", "both"}

ExpectedKind(l, section) ==
  IF l = "both" THEN (IF section \in {"BenJi", "ZaiJi"} THEN "Emperor" ELSE "Official")
  ELSE IF l = "emperor" THEN "Emperor" ELSE "Official"

ExpectedPerson(content, section) ==
  LET strict == {i \in Inspected(content) : StrictHeader(content[i])}
      lax    == {i \in Inspected(content) : content[i] = "ruler"}
  IN  IF strict # {}
      THEN LET i == CHOOSE k \in strict : \A m \in strict : k <= m
           IN  Some(<<ExpectedKind(content[i], section), i>>)
      ELSE IF section = "ZaiJi" /\ lax # {}
      THEN Some(<<"Ruler", CHOOSE k \in lax : \A m \in lax : k <= m>>)
      ELSE None

ParsedAs(expected, parsed) ==
  IF IsSome(expected)
  THEN IsSome(parsed) /\ <<Unwrap(parsed).kind, Unwrap(parsed).header_line>> = Unwrap(expected)
  ELSE ~IsSome(parsed)

C29_FirstTenNonBlank ==
  (pc = "ret" /\ call.fn = "parse_biography" /\ IsSome(call.bio.read)) =>
    ParsedAs(ExpectedPerson(Unwrap(call.bio.read), call.bio.source.section), ret)

\* C29 (amended): parse_biography inspects the non-blank lines among the
\* first 10 lines of the file: a header that matches a template and sits on
\* one of the first 10 lines is parsed whatever number of blank lines precede
\* it, and a header on a later line is never parsed.  The inspected lines are
\* tried in file order, Emperor before Official on a line when the section is
\* Annals or Foreign-Records and Official first otherwise; the Ruler templates
\* only for Foreign-Records and only after every inspected line failed the
\* other templates.
InspectedOfFirstTen(content) ==
  {i \in 1..Len(content) : content[i] # "blank" /\ i <= 10}

ExpectedAmong(inspected, content, section) ==
  LET strict == {i \in inspected : StrictHeader(content[i])}
      lax    == {i \in inspected : content[i] = "ruler"}
  IN  IF strict # {}
      THEN LET i == CHOOSE k \in strict : \A m \in strict : k <= m
           IN  Some(<<ExpectedKind(content[i], section), i>>)
      ELSE IF section = "ZaiJi" /\ lax # {}
      THEN Some(<<"Ruler", CHOOSE k \in lax : \A m \in lax : k <= m>>)
      ELSE None

C29_FirstTenLines ==
  (pc = "ret" /\ call.fn = "parse_biography" /\ IsSome(call.bio.read)) =>
    LET content == Unwrap(call.bio.read)
    IN  ParsedAs(ExpectedAmong(InspectedOfFirstTen(content), content,
                               call.bio.source.section), ret)

\* a file whose 11th line is its only header, the 10 lines before it partly
\* blank: nothing is parsed
C29_Witness ==
  /\ pc = "ret" /\ call.fn = "parse_biography" /\ IsSome(call.bio.read)
  /\ LET content == Unwrap(call.bio.read)
     IN  /\ Len(content) = 11 /\ StrictHeader(content[11])
         /\ \E i \in 1..10 : content[i] = "blank"
         /\ \A i \in 1..10 : ~StrictHeader(content[i]) /\ content[i] # "ruler"
  /\ ret = None

\* C23 (as stated): split_name fails on fewer than 2 characters; on 2 or more
\* it returns (surname, given) with surname the compound surname of the table
\* that is a prefix of the input when there is one and the first character
\* otherwise, surname followed by given equal to the input, given non-empty.
CompoundPrefixes(s) ==
  {c \in {COMPOUND_SURNAMES[i] : i \in 1..Len(COMPOUND_SURNAMES)} :
     Len(s) >= Len(c) /\ \A j \in 1..Len(c) : s[j] = c[j]}

SplitsAs(s, result, compounds) ==
  IF Len(s) < 2 THEN ~IsSome(result)
  ELSE /\ IsSome(result)
       /\ Unwrap(result)[1] \o Unwrap(result)[2] = s
       /\ Unwrap(result)[2] # <<>>
       /\ IF compounds # {} THEN Unwrap(result)[1] \in compounds
          ELSE Unwrap(result)[1] = <<s[1]>>

C23_SplitName ==
  (pc = "ret" /\ call.fn = "split_name") =>
    SplitsAs(call.full_name, ret, CompoundPrefixes(call.full_name))

\* C23 (amended): the compound surname is taken only when the input is longer
\* than it; an input that is exactly a compound surname (司馬) is split after
\* its first character.
C23_SplitNameProperPrefix ==
  (pc = "ret" /\ call.fn = "split_name") =>
    SplitsAs(call.full_name, ret,
             {c \in CompoundPrefixes(call.full_name) : Len(c) < Len(call.full_name)})

C23_Witness ==
  /\ pc = "ret" /\ call.fn = "split_name"
  /\ call.full_name = <<"Tu", "Fa", "Chu3">>
  /\ ret = Some(<< <<"Tu", "Fa">>, <<"Chu3">> >>)

\* C28 (amended): parse_cn_month returns 1 for 正 and 一, 12 for 臘, the value
\* of the numeral for 二..十二, and for 閏 followed by 正 or by a numeral of
\* 一..十二 the month of what follows; it returns absent for the empty string,
\* for a numeral whose value is outside 1..12 and for 閏臘; every returned
\* month is in 1..12.
DigitOf(c) ==
  CASE c = "yi" -> 1 [] c = "er" -> 2 [] c = "san" -> 3 [] c = "jiu" -> 9 [] OTHER -> 0

\* the value of a numeral 一..九十九 written with 十, 0 for any other string
NumeralValue(s) ==
  IF Len(s) = 1 /\ s[1] = "shi" THEN 10
  ELSE IF Len(s) = 1 THEN DigitOf(s[1])
  ELSE IF Len(s) = 2 /\ s[1] = "shi" /\ DigitOf(s[2]) > 0 THEN 10 + DigitOf(s[2])
  ELSE IF Len(s) = 2 /\ s[2] = "shi" /\ DigitOf(s[1]) > 0 THEN 10 * DigitOf(s[1])
  ELSE IF Len(s) = 3 /\ s[2] = "shi" /\ DigitOf(s[1]) > 0 /\ DigitOf(s[3]) > 0
  THEN 10 * DigitOf(s[1]) + DigitOf(s[3])
  ELSE 0

PlainMonth(s) ==
  IF s = <<"zheng">> THEN 1
  ELSE IF s = <<"la">> THEN 12
  ELSE IF NumeralValue(s) \in 1..12 THEN NumeralValue(s)
  ELSE 0

MonthRule(s, result, leap_bases) ==
  /\ PlainMonth(s) > 0 => result = Some(PlainMonth(s))
  /\ (s # <<>> /\ s[1] = "run" /\ Tail(s) \in leap_bases) => result = Some(PlainMonth(Tail(s)))
  /\ (s = <<>> \/ NumeralValue(s) > 12) => result = None
  /\ IsSome(result) => Unwrap(result) \in 1..12

MonthNames == {s \in UNION {[1..k -> MonthChars] : k \in 1..2} : PlainMonth(s) > 0}

C28_Month ==
  (pc = "ret" /\ call.fn = "parse_cn_month") =>
    /\ MonthRule(call.s, ret, MonthNames \ {<<"la">>})
    /\ call.s = <<"run", "la">> => ret = None

C28_Witness ==
  /\ pc = "ret" /\ call.fn = "parse_cn_month"
  /\ call.s = <<"run", "shi", "er">> /\ ret = Some(12)

\* C28 (as stated): the base month is returned for every 閏-prefixed month,
\* 閏臘 included.
C28_MonthLeapAny ==
  (pc = "ret" /\ call.fn = "parse_cn_month") => MonthRule(call.s, ret, MonthNames)

\* C26: the context of an event is a slice of the line that contains the start
\* of the match: it begins at most 30 characters before the start of the
\* match, ends at most 30 characters after it, holds no line break and
\* contains the character at which the match starts, also when a line break
\* lies within 30 characters before the match.
IsContextSlice(text, m, context) ==
  \E i \in 1..m : \E j \in m..Len(text) :
    /\ context = SubSeq(text, i, j)
    /\ m - i <= 30 /\ j - m <= 30
    /\ \A k \in i..j : text[k] # "nl"

C26_ContextOnMatchLine ==
  (pc = "ret" /\ call.fn = "extract_context") =>
    IsContextSlice(call.text, call.match_start, ret)

\* C27: build_era_regex returns an alternation in which the era names are
\* ordered by character length descending (太平真君 before 太平) and in which
\* every era name of the catalogue appears exactly once, also the names that
\* several regimes share (建武, 太和, 永興).
Occurrences(v, x) == Cardinality({i \in 1..Len(v) : v[i] = x})

LengthDescending(v) ==
  \A i, j \in 1..Len(v) : i < j => Len(EraChars[v[i]]) >= Len(EraChars[v[j]])

C27_EraRegexOnce ==
  (pc = "call" /\ call.fn = "scan_file") =>
    /\ LengthDescending(ret)
    /\ \A e \in EraNames : Occurrences(ret, e) = 1

\* C30: every time reference extract_times produces, for any content and any
\* of the six books, has an era name of the catalogue, a year in 1..99 and a
\* regime such that (regime, era) is an entry of the catalogue; so
\* exact_ad_year of it is never absent and resolve_era never leaves the regime
\* to the default-regime fallback.  The scopes and the timed events of a file
\* carry these very time references.
IsCatalogueEntry(regime_chinese, era) ==
  \E i \in 1..Len(ERA_NAMES) :
    ERA_NAMES[i].name = era /\ as_chinese(ERA_NAMES[i].regime) = regime_chinese

ResolvedTimeRef(t, b) ==
  /\ t.era \in EraNames
  /\ t.year \in 1..99
  /\ IsCatalogueEntry(t.regime, t.era)
  /\ IsSome(exact_ad_year(t.regime, t.era, t.year))
  /\ IsSome(resolve_era(t.era, b))

DatedTime(t, b) == ResolvedTimeRef(t, b)

\* C30 (amended): the time references, the scopes and every event that has a
\* time reference are resolved as above; an event that no time reference
\* precedes in its file has no time and so no AD year.
C30_TimeRefResolved ==
  (pc = "ret" /\ call.fn = "scan_file") =>
    /\ \A i \in 1..Len(times) : ResolvedTimeRef(times[i][2], call.book)
    /\ \A i \in 1..Len(scopes) : ResolvedTimeRef(scopes[i].time, call.book)
    /\ \A i \in 1..Len(events) :
         IsSome(events[i].time) => ResolvedTimeRef(Unwrap(events[i].time), call.book)

C30_Witness ==
  /\ pc = "ret" /\ call.fn = "scan_file"
  /\ Len(times) = 2 /\ Len(scopes) = 2 /\ Len(events) = 1
  /\ IsSome(events[1].time)
  /\ times[1][2].regime # as_chinese(default_regime(call.book))
  /\ times[2][2].regime = as_chinese(default_regime(call.book))

\* C30 (as stated): moreover no extracted event is left without an AD year.
C30_EveryEventDated ==
  (pc = "ret" /\ call.fn = "scan_file") =>
    /\ \A i \in 1..Len(times) : DatedTime(times[i][2], call.book)
    /\ \A i \in 1..Len(scopes) : DatedTime(scopes[i].time, call.book)
    /\ \A i \in 1..Len(events) :
         IsSome(events[i].time) /\ DatedTime(Unwrap(events[i].time), call.book)

\* C25: every event scan_file returns, of any of the five kinds, has a
\* non-empty person that passes the false-positive name filter: it is not in
\* the blacklist, does not end in a title suffix or a standalone title, does
\* not end in 王, 公 or 侯 when it has 3 or more characters, does not end in
\* 州, 郡, 縣 or 國, and does not end in a listed function word, verb or digit;
\* a captured name ending in 之 that meets none of these is not rejected.
SetOf(table) == {table[i] : i \in 1..Len(table)}

EndsIn(name, suffix) ==
  /\ Len(name) >= Len(suffix)
  /\ \A k \in 1..Len(suffix) : name[Len(name) - Len(suffix) + k] = suffix[k]

LastIn(name, cs) == Len(name) >= 1 /\ name[Len(name)] \in SetOf(cs)

PassesFilter(name) ==
  /\ name \notin SetOf(BLACKLIST)
  /\ \A t \in SetOf(TITLE_SUFFIXES) \cup SetOf(STANDALONE_TITLES) : ~EndsIn(name, t)
  /\ ~(Len(name) >= 3 /\ LastIn(name, nobility_suffixes))
  /\ ~LastIn(name, geo_suffixes)
  /\ ~LastIn(name, bad_endings)

EventAt(es, m) ==
  \E i \in 1..Len(es) :
    es[i].byte_offset = m.start /\ es[i].kind.type = m.kind /\ es[i].kind.person = m.person

C25_PersonsPassFilter ==
  (pc = "ret" /\ call.fn = "scan_file") =>
    /\ \A i \in 1..Len(events) :
         /\ events[i].kind.type \in EventKinds
         /\ events[i].kind.person # <<>>
         /\ PassesFilter(events[i].kind.person)
    /\ \A j \in 1..Len(call.content.event_matches) :
         LET m == call.content.event_matches[j]
         IN  (LastIn(m.person, <<"U4E4B">>) /\ PassesFilter(m.person)) => EventAt(events, m)

C25_Witness ==
  /\ pc = "ret" /\ call.fn = "scan_file"
  /\ Len(events) = 5
  /\ {events[i].kind.type : i \in 1..5} = EventKinds
  /\ \A i \in 1..5 : LastIn(events[i].kind.person, <<"U4E4B">>)

\* C22: a corpus file that cannot be read contributes no event and no scope
\* to EventScanner::scan_corpus, and every other file is still processed in
\* order: the events and scopes are those of the corpus without the unreadable
\* files.  A file whose header cannot be parsed is recorded as failed, every
\* file is either parsed or failed, and the pipeline goes on to the output
\* stage.
Readable(bio_files) == SelectSeq(bio_files, LAMBDA bio : IsSome(bio.read))

RECURSIVE EventsOfFiles(_)
EventsOfFiles(bio_files) ==
  IF bio_files = <<>> THEN <<>>
  ELSE LET bio == Head(bio_files)
           content == Unwrap(bio.read)
       IN  scan_events(content.event_matches,
                       scan_file_times(build_era_regex, content, bio.source.book), bio.path)
           \o EventsOfFiles(Tail(bio_files))

RECURSIVE ScopesOfFiles(_)
ScopesOfFiles(bio_files) ==
  IF bio_files = <<>> THEN <<>>
  ELSE LET bio == Head(bio_files)
           content == Unwrap(bio.read)
       IN  scan_file_scopes(scan_file_times(build_era_regex, content, bio.source.book),
                            content, bio.path)
           \o ScopesOfFiles(Tail(bio_files))

Unparseable(bio_files) ==
  SelectSeq(bio_files, LAMBDA bio : ~IsSome(parse_biography(header_file(bio))))

C22_Results ==
  /\ (pc = "output" /\ call.fn = "run_extract") =>
       /\ all_events = EventsOfFiles(Readable(call.bio_files))
       /\ time_index.scopes = ScopesOfFiles(Readable(call.bio_files))
       /\ Unwrap(ret.stats).total_events = Len(all_events)
       /\ \A i \in 1..Len(call.bio_files) :
            ~IsSome(call.bio_files[i].read) =>
              /\ \A k \in 1..Len(all_events) : all_events[k].source_file # call.bio_files[i].path
              /\ \A k \in 1..Len(time_index.scopes) :
                   time_index.scopes[k].span.file # call.bio_files[i].path
  /\ (pc \in {"phase5", "output"} /\ call.fn = "run_extract") =>
       /\ ret.failed = [k \in 1..Len(Unparseable(call.bio_files)) |->
                          Unparseable(call.bio_files)[k].path]
       /\ Len(ret.persons) + Len(ret.failed) = Len(call.bio_files)

\* no step of the pipeline ends it: phase 2 hands over to the event scan and
\* the event scan to the output stage, whatever files failed
C22_UnreadableSkipped ==
  /\ []C22_Results
  /\ [][call.fn = "run_extract" =>
          /\ pc = "phase2" => pc' = "phase5" /\ Len(ret'.persons) + Len(ret'.failed)
                                                 = Len(call.bio_files)
          /\ pc = "phase5" => pc' = "output" /\ ret'.failed = ret.failed]_vars

\* an unreadable file between two readable ones, a file without a header, and
\* the pipeline at its output stage with the events of both readable files
C22_Witness ==
  /\ pc = "output" /\ call.fn = "run_extract"
  /\ Len(call.bio_files) = 3
  /\ IsSome(call.bio_files[1].read) /\ ~IsSome(call.bio_files[2].read)
  /\ IsSome(call.bio_files[3].read)
  /\ Len(ret.failed) = 2 /\ Len(ret.persons) = 1
  /\ Len(all_events) = 2
  /\ all_events[1].source_file = 1 /\ all_events[2].source_file = 3

\* C24: run_locate walks the timed events in non-decreasing order of AD year
\* and stops at the first one whose AD year exceeds the cutoff: the state after
\* the walk is made by the events of AD year at most the cutoff alone, a
\* person's last-seen year and death mark being those of the person's last
\* such event and last such Death, and the location the one set by the
\* person's last such event with a structured place or a context-window
\* location.
AdYearOf(e) == Unwrap(exact_ad_year(Unwrap(e.time).regime, Unwrap(e.time).era, Unwrap(e.time).year))

TimesIn(s, e) == Cardinality({i \in 1..Len(s) : s[i] = e})

LastOf(S) == CHOOSE i \in S : \A j \in S : j <= i

CarriesLocation(e) == IsSome(structured_place(e)) \/ e.locations # <<>>

PlaceSetBy(e) ==
  IF IsSome(structured_place(e)) THEN Unwrap(structured_place(e)).name ELSE e.locations[1].name

WalkedState(ordered, cutoff, state) ==
  LET walked == {i \in 1..Len(ordered) : AdYearOf(ordered[i]) <= cutoff}
      of(p) == {i \in walked : person_name(ordered[i]) = p}
      deaths(p) == {i \in of(p) : ordered[i].kind.type = "Death"}
      located(p) == {i \in of(p) : CarriesLocation(ordered[i])}
  IN  /\ DOMAIN state = {person_name(ordered[i]) : i \in walked}
      /\ \A p \in DOMAIN state :
           /\ state[p].last_seen = AdYearOf(ordered[LastOf(of(p))])
           /\ state[p].dead_at = IF deaths(p) = {} THEN None
                                 ELSE Some(AdYearOf(ordered[LastOf(deaths(p))]))
           /\ IF located(p) = {} THEN state[p].location = None
              ELSE /\ IsSome(state[p].location)
                   /\ Unwrap(state[p].location).place = PlaceSetBy(ordered[LastOf(located(p))])
                   /\ Unwrap(state[p].location).ad_year = AdYearOf(ordered[LastOf(located(p))])

C24_WalkToCutoff ==
  (pc = "walked" /\ call.fn = "run_locate") =>
    LET ordered == [i \in 1..Len(ret.timed_events) |-> ret.timed_events[i][2]]
    IN  /\ \A e \in LocateEvents :
             TimesIn(ordered, e) = IF IsSome(e.time) THEN TimesIn(call.all_events, e) ELSE 0
        /\ \A i, j \in 1..Len(ordered) : i < j => AdYearOf(ordered[i]) <= AdYearOf(ordered[j])
        /\ WalkedState(ordered, ret.query_max_key, ret.state)

\* a walk that stopped before an event of a later year of a person it had
\* located, after two events of that person that set a location
C24_Witness ==
  /\ pc = "walked" /\ call.fn = "run_locate"
  /\ Len(ret.timed_events) = 3
  /\ ret.timed_events[3][1] > ret.query_max_key
  /\ ret.timed_events[2][1] <= ret.query_max_key
  /\ \A i \in 1..3 : person_name(ret.timed_events[i][2]) = "WangJin"
                     /\ CarriesLocation(ret.timed_events[i][2])
  /\ call.all_events[1] = ret.timed_events[3][2]

====
